---------------------------- MODULE Spec2Model ----------------------------
(***************************************************************************)
(* Read-pair CIGAR normalisation of hivwholeseq (utils/mapping.py).        *)
(*                                                                         *)
(* A CIGAR is a sequence of blocks <<bt, bl>> (operation code, length);    *)
(* an aligned read is a record with the pysam fields the code touches.     *)
(* Python's 0-based indices are kept for coordinates (pos, read offsets);  *)
(* only the positions of blocks inside a CIGAR are 1-based here.           *)
(***************************************************************************)
EXTENDS Integers, Sequences, FiniteSets, TLC

VARIABLES
    reads,      \* the reads being processed (a pair, or one read for the single-read calls)
    entry,      \* the value of reads when the last call was entered
    arg,        \* the arguments of the last call
    op,         \* the name of the last call ("init" before any call)
    ret         \* what the last call returned or raised (for the generator:
                \* the pairs it has yielded so far)

vars == <<reads, entry, arg, op, ret>>

----------------------------------------------------------------------------
(* CIGAR operation codes (pysam): 0 MATCH, 1 INSERTION, 2 DELETION.        *)
(* 4 (soft clip) stands for every code the module does not recognise.      *)

MATCH == 0

INSERTION == 1

DELETION == 2

SOFTCLIP == 4

\* sum(bl for (bt, bl) in cigar if bt in types)
RECURSIVE CigarSum(_, _)
CigarSum(cigar, types) ==
    IF cigar = <<>> THEN 0
    ELSE (IF Head(cigar)[1] \in types THEN Head(cigar)[2] ELSE 0)
         + CigarSum(Tail(cigar), types)

\* reference span of a CIGAR: MATCH + DELETION
RefSpan(cigar) == CigarSum(cigar, {MATCH, DELETION})

\* bases of the read a CIGAR accounts for: MATCH + INSERTION
ReadSpan(cigar) == CigarSum(cigar, {MATCH, INSERTION})

\* Python's s[lo:hi] for integers lo, hi (negative indices count from the end,
\* out-of-range indices are clamped).
PyIndex(n, i) == IF i < 0 THEN (IF n + i < 0 THEN 0 ELSE n + i)
                 ELSE IF i > n THEN n ELSE i

PySlice(s, lo, hi) ==
    LET a == PyIndex(Len(s), lo)
        b == PyIndex(Len(s), hi)
    IN  IF a >= b THEN <<>> ELSE SubSeq(s, a + 1, b)

\* s[lo:]
PySliceFrom(s, lo) == PySlice(s, lo, Len(s))

\* s[:hi]
PySliceTo(s, hi) == PySlice(s, 0, hi)

\* read.rlen: the length of the query sequence
rlen(read) == Len(read.seq)

----------------------------------------------------------------------------
(* test_read_pair_integrity and fix_read_pair                              *)

\* i_fwd = read_pair[0].is_reverse, as a position in the pair
i_fwd(rs) == IF rs[1].is_reverse THEN 2 ELSE 1

\* i_rev = not i_fwd
i_rev(rs) == IF rs[1].is_reverse THEN 1 ELSE 2

\* mutant: the insert size is computed from MATCH+INSERTION instead of MATCH+DELETION
fix_isize_readlen(rs) ==
    rs[i_rev(rs)].pos - rs[i_fwd(rs)].pos
        + CigarSum(rs[i_rev(rs)].cigar, {MATCH, INSERTION})

\* isize of fix_read_pair
fix_isize(rs) ==
    rs[i_rev(rs)].pos - rs[i_fwd(rs)].pos
        + CigarSum(rs[i_rev(rs)].cigar, {MATCH, DELETION})

\* mutant: the mate positions are copied from the read itself, not from its mate
fix_read_pair_own_pos(rs) ==
    LET f == i_fwd(rs)
        r == i_rev(rs)
        isize == fix_isize(rs)
        fwd == [rs[f] EXCEPT !.mpos = rs[f].pos, !.isize = isize]
        rev == [rs[r] EXCEPT !.mpos = rs[r].pos, !.isize = 0 - isize]
    IN  IF f = 1 THEN <<fwd, rev>> ELSE <<rev, fwd>>

fix_read_pair(rs) ==
    LET f == i_fwd(rs)
        r == i_rev(rs)
        isize == fix_isize(rs)
        fwd == [rs[f] EXCEPT !.mpos = rs[r].pos, !.isize = isize]
        rev == [rs[r] EXCEPT !.mpos = rs[f].pos, !.isize = 0 - isize]
    IN  IF f = 1 THEN <<fwd, rev>> ELSE <<rev, fwd>>

\* mutant: the insert-size consistency test is dropped
test_insert_skipped(rs) == FALSE

\* the fourth test of test_read_pair_integrity
test_insert(rs) ==
    rs[i_fwd(rs)].pos + rs[i_fwd(rs)].isize
        # rs[i_rev(rs)].pos + CigarSum(rs[i_rev(rs)].cigar, {MATCH, DELETION})

\* TRUE when the pair is NOT consistent
test_read_pair_integrity(rs) ==
    LET f == i_fwd(rs)
        r == i_rev(rs)
    IN  IF rs[f].pos < 0 THEN TRUE
        ELSE IF (rs[1].mpos # rs[2].pos) \/ (rs[2].mpos # rs[1].pos) THEN TRUE
        ELSE IF (rs[f].isize <= 0) \/ (rs[r].isize >= 0) THEN TRUE
        ELSE IF test_insert(rs) THEN TRUE
        ELSE IF (CigarSum(rs[1].cigar, {MATCH, INSERTION}) # rlen(rs[1]))
                \/ (CigarSum(rs[2].cigar, {MATCH, INSERTION}) # rlen(rs[2])) THEN TRUE
        ELSE FALSE

----------------------------------------------------------------------------
(* Inputs of the read-pair calls                                           *)

MaxPos == 1

MaxIsize == 2

\* base i of a read as it came from the stream; slices keep the labels
Bases(n) == [i \in 1..n |-> i]

\* distinct phred scores, so that a slice of the quality string is recognisable
Quals(n) == [i \in 1..n |-> 20 + i]

MkRead(pos, mpos, isize, cigar, n, rev) ==
    [pos |-> pos, mpos |-> mpos, isize |-> isize, cigar |-> cigar,
     seq |-> Bases(n), qual |-> Quals(n), is_reverse |-> rev]

PairCigars ==
    { << <<MATCH, 2>> >>,
      << <<MATCH, 1>>, <<DELETION, 1>>, <<MATCH, 1>> >>,
      << <<INSERTION, 1>>, <<MATCH, 1>> >> }

Slacks == {0, 1}

\* forward.start = 100, forward.isize = 250, reverse reference span = 50
ScenarioBPairs ==
    { << MkRead(100, p, 250, << <<MATCH, 50>> >>, 50, FALSE),
         MkRead(p, 100, 0 - 250, << <<MATCH, 48>>, <<DELETION, 2>> >>, 48, TRUE) >> :
        p \in 299..301 }

\* a forward and a reverse read with arbitrary mate fields, in either file order
SmallPair ==
    \E fpos \in (0 - 1)..MaxPos, fmpos \in 0..MaxPos, fisize \in (0 - MaxIsize)..MaxIsize,
       fcigar \in PairCigars, fslack \in Slacks,
       rpos \in (0 - 1)..MaxPos, rmpos \in 0..MaxPos, risize \in (0 - MaxIsize)..MaxIsize,
       rcigar \in PairCigars, rslack \in Slacks, fwd_first \in BOOLEAN :
        LET f == MkRead(fpos, fmpos, fisize, fcigar,
                        CigarSum(fcigar, {MATCH, INSERTION}) + fslack, FALSE)
            r == MkRead(rpos, rmpos, risize, rcigar,
                        CigarSum(rcigar, {MATCH, INSERTION}) + rslack, TRUE)
        IN  reads = IF fwd_first THEN <<f, r>> ELSE <<r, f>>

NoArg == [name |-> "none"]

InitPair ==
    /\ (SmallPair \/ reads \in ScenarioBPairs)
    /\ entry = reads
    /\ arg = NoArg
    /\ op = "init"
    /\ ret = "None"

FixReadPair ==
    /\ reads' = fix_read_pair(reads)
    /\ entry' = reads
    /\ arg' = NoArg
    /\ op' = "fix_read_pair"
    /\ ret' = "None"

TestReadPairIntegrity ==
    /\ ret' = (IF test_read_pair_integrity(reads) THEN "True" ELSE "False")
    /\ entry' = reads
    /\ arg' = NoArg
    /\ op' = "test_read_pair_integrity"
    /\ UNCHANGED reads

NextPair == FixReadPair \/ TestReadPairIntegrity

SpecPair == InitPair /\ [][NextPair]_vars

----------------------------------------------------------------------------
(* CIGAR interval algebra: get_ind_good_cigars, get_range_good_cigars,     *)
(* get_trims_from_good_cigars                                              *)

\* mutant: a MATCH one base shorter than match_len_min also counts as long
criterion_off_by_one(x, match_len_min) == (x[1] = 0) /\ (x[2] >= match_len_min - 1)

\* criterion = lambda x: (x[0] == 0) and (x[1] >= match_len_min)
criterion(x, match_len_min) == (x[1] = 0) /\ (x[2] >= match_len_min)

\* array(map(criterion, cigar), bool, ndmin=1)
criterion_array(cigar, match_len_min) ==
    [i \in 1..Len(cigar) |-> criterion(cigar[i], match_len_min)]

\* good_cigars.nonzero()[0], as block positions
nonzero(good_cigars) == {i \in 1..Len(good_cigars) : good_cigars[i]}

Min(S) == CHOOSE x \in S : \A y \in S : x <= y

Max(S) == CHOOSE x \in S : \A y \in S : x >= y

\* mutant: the blocks between the first and the last long match are not filled in
get_ind_good_cigars_nofill(cigar, match_len_min, full_output) ==
    LET good_cigars == criterion_array(cigar, match_len_min)
        tmp == nonzero(good_cigars)
    IN  [good_cigars |-> good_cigars,
         full_output |-> full_output,
         first_good_cigar |->
            IF full_output /\ tmp # {} THEN Min(tmp) - 1 ELSE 0 - 1,
         last_good_cigar |->
            IF full_output /\ tmp # {} THEN Max(tmp) - 1 ELSE 0 - 1]

\* The returned mask, and with full_output the 0-based indices of the first and
\* last good block (-1 stands for None, and for "not returned").
get_ind_good_cigars(cigar, match_len_min, full_output) ==
    LET good_cigars == criterion_array(cigar, match_len_min)
        tmp == nonzero(good_cigars)
        n_good_cigars == Cardinality(tmp)
        filled == IF n_good_cigars >= 2
                  THEN [i \in 1..Len(cigar) |->
                            IF Min(tmp) <= i /\ i <= Max(tmp) THEN TRUE
                            ELSE good_cigars[i]]
                  ELSE good_cigars
    IN  [good_cigars |-> filled,
         full_output |-> full_output,
         first_good_cigar |->
            IF full_output /\ n_good_cigars >= 1 THEN Min(tmp) - 1 ELSE 0 - 1,
         last_good_cigar |->
            IF full_output /\ n_good_cigars >= 1 THEN Max(tmp) - 1 ELSE 0 - 1]

\* The two for loops of get_range_good_cigars: walk the blocks from the offsets
\* (read_pos, ref_pos); err when a block type is not 0, 1 or 2.
RECURSIVE walk_blocks(_, _, _)
walk_blocks(blocks, read_pos, ref_pos) ==
    IF blocks = <<>> THEN [err |-> FALSE, read |-> read_pos, ref |-> ref_pos]
    ELSE LET block_type == Head(blocks)[1]
             block_len == Head(blocks)[2]
         IN  IF block_type = 0
             THEN walk_blocks(Tail(blocks), read_pos + block_len, ref_pos + block_len)
             ELSE IF block_type = 1
             THEN walk_blocks(Tail(blocks), read_pos + block_len, ref_pos)
             ELSE IF block_type = 2
             THEN walk_blocks(Tail(blocks), read_pos, ref_pos + block_len)
             ELSE [err |-> TRUE, read |-> read_pos, ref |-> ref_pos]

RangeNone == [kind |-> "None", read |-> <<0, 0>>, ref |-> <<0, 0>>]

RangeError == [kind |-> "ValueError", read |-> <<0, 0>>, ref |-> <<0, 0>>]

\* mutant: the start is trimmed whether or not blocks were chopped off on the left
trim_start_always(first_good_cigar) == TRUE

\* if first_good_cigar != 0 (first_good_cigar is a block position here)
trim_start(first_good_cigar) == first_good_cigar # 1

\* mutant: a side that was cut is trimmed in read coordinates only
range_of_read_only(start, end, tl, tr) ==
    [kind |-> "range",
     read |-> <<start.read + tl, end.read - tr>>,
     ref |-> <<start.ref, end.ref>>]

\* ((start_read, end_read), (start_ref, end_ref)) after the trims tl, tr
range_of(start, end, tl, tr) ==
    [kind |-> "range",
     read |-> <<start.read + tl, end.read - tr>>,
     ref |-> <<start.ref + tl, end.ref - tr>>]

\* mutant: a block type that is not recognised is skipped instead of raising
range_result_lenient(start, end, range) == range

\* the value of the call once both walks are done: ValueError if either raised
range_result(start, end, range) ==
    IF start.err \/ end.err THEN RangeError ELSE range

get_range_good_cigars(cigar, pos, match_len_min, trim_left, trim_right) ==
    LET good_cigars == criterion_array(cigar, match_len_min)
        tmp == nonzero(good_cigars)
    IN  IF tmp = {} THEN RangeNone
        ELSE
        LET first_good_cigar == Min(tmp)
            last_good_cigar == Max(tmp)
            start == walk_blocks(SubSeq(cigar, 1, first_good_cigar - 1), 0, pos)
            end == walk_blocks(SubSeq(cigar, first_good_cigar, last_good_cigar),
                               start.read, start.ref)
            tl == IF trim_start(first_good_cigar) THEN trim_left ELSE 0
            tr == IF last_good_cigar # Len(cigar) THEN trim_right ELSE 0
        IN  range_result(start, end, range_of(start, end, tl, tr))

\* trims_left_right: row i is <<left trim, right trim>> of block i
get_trims_from_good_cigars(good_cigars, trim_left, trim_right) ==
    LET tmp == nonzero(good_cigars)
    IN  [i \in 1..Len(good_cigars) |->
            IF tmp = {} THEN <<0, 0>>
            ELSE << IF i = Min(tmp) /\ Min(tmp) # 1 THEN trim_left ELSE 0,
                    IF i = Max(tmp) /\ Max(tmp) # Len(good_cigars) THEN trim_right ELSE 0 >>]

----------------------------------------------------------------------------
(* Inputs of the CIGAR calls                                               *)

MaxBlocks == 3

MaxBlockLen == 3

BlockTypes == {MATCH, INSERTION, DELETION, SOFTCLIP}

Blocks == {<<bt, bl>> : bt \in BlockTypes, bl \in 1..MaxBlockLen}

Cigars(n) == UNION {[1..k -> Blocks] : k \in 0..n}

MatchLenMins == {2, 3}

Trims == {0, 1}

\* the alignment start used for the bare-CIGAR calls (non-zero, so that read and
\* reference coordinates differ)
RangePos == 7

\* CIGAR [(MATCH,5),(INSERTION,2),(MATCH,30)] with match_len_min = 20
ScenarioACigar == << <<MATCH, 5>>, <<INSERTION, 2>>, <<MATCH, 30>> >>

ScenarioAArg ==
    [cigar |-> ScenarioACigar, pos |-> RangePos, match_len_min |-> 20,
     trim_left |-> 3, trim_right |-> 3]

InitRange ==
    /\ \/ \E cigar \in Cigars(MaxBlocks), mlm \in MatchLenMins, tl \in Trims, tr \in Trims :
            arg = [cigar |-> cigar, pos |-> RangePos, match_len_min |-> mlm,
                   trim_left |-> tl, trim_right |-> tr]
       \/ arg = ScenarioAArg
    /\ reads = <<>>
    /\ entry = <<>>
    /\ op = "init"
    /\ ret = "None"

GetIndGoodCigars ==
    /\ \E full_output \in BOOLEAN :
            ret' = get_ind_good_cigars(arg.cigar, arg.match_len_min, full_output)
    /\ op' = "get_ind_good_cigars"
    /\ UNCHANGED <<reads, entry, arg>>

GetRangeGoodCigars ==
    /\ ret' = get_range_good_cigars(arg.cigar, arg.pos, arg.match_len_min,
                                    arg.trim_left, arg.trim_right)
    /\ op' = "get_range_good_cigars"
    /\ UNCHANGED <<reads, entry, arg>>

GetTrimsFromGoodCigars ==
    /\ ret' = get_trims_from_good_cigars(
                get_ind_good_cigars(arg.cigar, arg.match_len_min, FALSE).good_cigars,
                arg.trim_left, arg.trim_right)
    /\ op' = "get_trims_from_good_cigars"
    /\ UNCHANGED <<reads, entry, arg>>

NextRange == GetIndGoodCigars \/ GetRangeGoodCigars \/ GetTrimsFromGoodCigars

SpecRange == InitRange /\ [][NextRange]_vars

----------------------------------------------------------------------------
(* trim_short_cigars                                                       *)

\* mutant: an INSERTION met on the way in from the left also advances the reference
walk_left_step_ins_both(bt, bl, pos_ref, pos_read, match_len_min) ==
    IF bt = 2 THEN [found |-> FALSE, pos_ref |-> pos_ref + bl, pos_read |-> pos_read]
    ELSE IF bt = 1 THEN [found |-> FALSE, pos_ref |-> pos_ref + bl, pos_read |-> pos_read + bl]
    ELSE IF bl < match_len_min
    THEN [found |-> FALSE, pos_ref |-> pos_ref + bl, pos_read |-> pos_read + bl]
    ELSE [found |-> TRUE, pos_ref |-> pos_ref, pos_read |-> pos_read]

\* one iteration of the left loop: the if / elif chain on (bt, bl)
walk_left_step(bt, bl, pos_ref, pos_read, match_len_min) ==
    IF bt = 2 THEN [found |-> FALSE, pos_ref |-> pos_ref + bl, pos_read |-> pos_read]
    ELSE IF bt = 1 THEN [found |-> FALSE, pos_ref |-> pos_ref, pos_read |-> pos_read + bl]
    ELSE IF bl < match_len_min
    THEN [found |-> FALSE, pos_ref |-> pos_ref + bl, pos_read |-> pos_read + bl]
    ELSE [found |-> TRUE, pos_ref |-> pos_ref, pos_read |-> pos_read]

\* for icig, (bt, bl) in enumerate(cigar): ... else: (icig is a block position)
RECURSIVE walk_left(_, _, _, _, _)
walk_left(cigar, icig, pos_ref, pos_read, match_len_min) ==
    IF icig > Len(cigar)
    THEN [found |-> FALSE, icig |-> 0, pos_ref |-> pos_ref, pos_read |-> pos_read]
    ELSE LET st == walk_left_step(cigar[icig][1], cigar[icig][2],
                                  pos_ref, pos_read, match_len_min)
         IN  IF st.found
             THEN [found |-> TRUE, icig |-> icig, pos_ref |-> pos_ref, pos_read |-> pos_read]
             ELSE walk_left(cigar, icig + 1, st.pos_ref, st.pos_read, match_len_min)

\* "Trim left": ok is FALSE when the for loop ran into its else clause
trim_short_cigars_left(read, match_len_min, trim_pad) ==
    LET cigar == read.cigar
    IN  IF (cigar[1][1] # 0) \/ (cigar[1][2] < match_len_min)
        THEN LET w == walk_left(cigar, 1, read.pos, 0, match_len_min)
                 cigar_new == << <<0, cigar[w.icig][2] - trim_pad>> >>
                              \o SubSeq(cigar, w.icig + 1, Len(cigar))
                 pos_ref == w.pos_ref + trim_pad
                 pos_read == w.pos_read + trim_pad
             IN  IF w.found
                 THEN [ok |-> TRUE,
                       read |-> [read EXCEPT !.seq = PySliceFrom(read.seq, pos_read),
                                             !.qual = PySliceFrom(read.qual, pos_read),
                                             !.cigar = cigar_new,
                                             !.pos = pos_ref]]
                 ELSE [ok |-> FALSE, read |-> read]
        ELSE [ok |-> TRUE, read |-> read]

\* for icig in xrange(len(cigar) - 1, -1, -1): ... else:
RECURSIVE walk_right(_, _, _, _)
walk_right(cigar, icig, pos_read, match_len_min) ==
    IF icig < 1
    THEN [found |-> FALSE, icig |-> 0, pos_read |-> pos_read]
    ELSE LET bt == cigar[icig][1]
             bl == cigar[icig][2]
         IN  IF bt = 2 THEN walk_right(cigar, icig - 1, pos_read, match_len_min)
             ELSE IF bt = 1 THEN walk_right(cigar, icig - 1, pos_read - bl, match_len_min)
             ELSE IF bl < match_len_min
             THEN walk_right(cigar, icig - 1, pos_read - bl, match_len_min)
             ELSE [found |-> TRUE, icig |-> icig, pos_read |-> pos_read]

\* cigar_new = cigar[:icig] + [(0, bl - trim_pad)]
right_cigar(cigar, icig, trim_pad) ==
    SubSeq(cigar, 1, icig - 1) \o << <<0, cigar[icig][2] - trim_pad>> >>

\* "Trim right", on the read as the left trim left it
trim_short_cigars_right(read, match_len_min, trim_pad) ==
    LET cigar == read.cigar
        n == Len(cigar)
    IN  IF (cigar[n][1] # 0) \/ (cigar[n][2] < match_len_min)
        THEN LET w == walk_right(cigar, n, Len(read.seq), match_len_min)
                 pos_read == w.pos_read - trim_pad
             IN  IF w.found
                 THEN [ok |-> TRUE,
                       read |-> [read EXCEPT !.seq = PySliceTo(read.seq, pos_read),
                                             !.qual = PySliceTo(read.qual, pos_read),
                                             !.cigar = right_cigar(cigar, w.icig, trim_pad)]]
                 ELSE [ok |-> FALSE, read |-> read]
        ELSE [ok |-> TRUE, read |-> read]

\* what a failed trim gives back: raise ValueError if throw, else return True
trim_failure(throw) == IF throw THEN "ValueError" ELSE "True"

\* The read as the call leaves it (the left trim is kept when the right one
\* fails), and what the call returns or raises.
trim_short_cigars(read, match_len_min, trim_pad, throw) ==
    LET left == trim_short_cigars_left(read, match_len_min, trim_pad)
        right == trim_short_cigars_right(left.read, match_len_min, trim_pad)
    IN  IF ~left.ok THEN [read |-> read, ret |-> trim_failure(throw)]
        ELSE IF ~right.ok THEN [read |-> left.read, ret |-> trim_failure(throw)]
        ELSE [read |-> right.read, ret |-> IF throw THEN "None" ELSE "False"]

----------------------------------------------------------------------------
(* Inputs of trim_short_cigars                                             *)

TrimPads == {0, 1, 2}

\* a mapped read as the aligner wrote it: the sequence holds the bases of its
\* MATCH, INSERTION and soft-clip blocks
StreamRead(cigar) ==
    MkRead(RangePos, 0, 0, cigar, CigarSum(cigar, {MATCH, INSERTION, SOFTCLIP}), FALSE)

InitTrim ==
    /\ \E cigar \in Cigars(MaxBlocks) \ {<<>>} : reads = <<StreamRead(cigar)>>
    /\ entry = reads
    /\ arg = NoArg
    /\ op = "init"
    /\ ret = "None"

\* one call per read that comes from the stream
TrimShortCigars ==
    /\ op = "init"
    /\ \E match_len_min \in MatchLenMins, trim_pad \in TrimPads, throw \in BOOLEAN :
        LET r == trim_short_cigars(reads[1], match_len_min, trim_pad, throw)
        IN  /\ reads' = <<r.read>>
            /\ ret' = r.ret
            /\ arg' = [match_len_min |-> match_len_min, trim_pad |-> trim_pad,
                       throw |-> throw]
    /\ entry' = reads
    /\ op' = "trim_short_cigars"

NextTrim == TrimShortCigars

SpecTrim == InitTrim /\ [][NextTrim]_vars

----------------------------------------------------------------------------
(* trim_read_pair_low_quality                                              *)

\* np.fromstring(read.qual, np.int8) - 33: qual holds the ASCII codes
phred_of(qual) == [i \in 1..Len(qual) |-> qual[i] - 33]

\* (win_phred >= phred_min).sum()
count_good(win_phred, phred_min) ==
    Cardinality({i \in 1..Len(win_phred) : win_phred[i] >= phred_min})

\* ind.all()
ind_all(phred, phred_min) == \A i \in 1..Len(phred) : phred[i] >= phred_min

read_size_min == 50

win_size == 10

win_qual_threshold == 9

shift == 5

\* mutant: the window passes only when all its bases are good
win_passes_all(win_phred, phred_min) ==
    ~(count_good(win_phred, phred_min) < win_size)

\* the negation of the while condition win_qual < win_qual_threshold
win_passes(win_phred, phred_min) ==
    ~(count_good(win_phred, phred_min) < win_qual_threshold)

\* LEFT EDGE: the while loop and the read_start -= shift after it; -1 stands for
\* the return True inside the loop
RECURSIVE left_edge(_, _, _)
left_edge(phred, phred_min, read_start) ==
    IF read_start > Len(phred) - read_size_min THEN 0 - 1
    ELSE IF win_passes(PySlice(phred, read_start, read_start + win_size), phred_min)
         THEN read_start
         ELSE left_edge(phred, phred_min, read_start + shift)

\* mutant: the right loop gives up only when no whole window is left
right_gives_up_at_zero(read_start, read_end) == read_end < win_size

\* if read_end < read_start + read_size_min: return True
right_gives_up(read_start, read_end) == read_end < read_start + read_size_min

\* RIGHT EDGE: the while loop and the read_end += shift after it; -1 stands for
\* the return True inside the loop
RECURSIVE right_edge(_, _, _, _)
right_edge(phred, phred_min, read_start, read_end) ==
    IF right_gives_up(read_start, read_end) THEN 0 - 1
    ELSE IF win_passes(PySlice(phred, read_end - win_size, read_end), phred_min)
         THEN read_end
         ELSE right_edge(phred, phred_min, read_start, read_end - shift)

\* (phred[read_start: read_end] >= phred_min).mean() < 0.9, on exact fractions
widespread_low(phred, phred_min, read_start, read_end) ==
    LET span == PySlice(phred, read_start, read_end)
    IN  10 * count_good(span, phred_min) < 9 * Len(span)

\* START: the for loop over read.cigar that pops the blocks before read_start
\* off the copy and shortens the block read_start falls into. orig is read.cigar,
\* icig the block the loop is at, cigar the copy (in read order).
RECURSIVE walk_start(_, _, _, _, _, _)
walk_start(orig, icig, cigar, read_pos, ref_start, read_start) ==
    IF icig > Len(orig) \/ cigar = <<>>
    THEN [cigar |-> cigar, ref_start |-> ref_start]
    ELSE LET bt == orig[icig][1]
             bl == orig[icig][2]
         IN  IF bt \in {0, 1}
             THEN IF read_pos + bl > read_start
                  THEN [cigar |-> << <<bt, read_pos + bl - read_start>> >> \o Tail(cigar),
                        ref_start |-> IF bt = 0 THEN ref_start + read_start - read_pos
                                      ELSE ref_start]
                  ELSE walk_start(orig, icig + 1, Tail(cigar), read_pos + bl,
                                  IF bt = 0 THEN ref_start + bl ELSE ref_start,
                                  read_start)
             ELSE IF bt = 2
             THEN walk_start(orig, icig + 1, Tail(cigar), read_pos, ref_start, read_start)
             ELSE walk_start(orig, icig + 1, cigar, read_pos, ref_start, read_start)

\* END: the for loop that builds cigar_new up to read_end bases
RECURSIVE walk_end(_, _, _, _)
walk_end(cigar, icig, read_pos, read_end) ==
    IF icig > Len(cigar) THEN <<>>
    ELSE LET bt == cigar[icig][1]
             bl == cigar[icig][2]
         IN  IF bt \in {0, 1}
             THEN IF read_pos + bl >= read_end
                  THEN << <<bt, read_end - read_pos>> >>
                  ELSE << <<bt, bl>> >> \o walk_end(cigar, icig + 1, read_pos + bl, read_end)
             ELSE IF bt = 2
             THEN << <<bt, bl>> >> \o walk_end(cigar, icig + 1, read_pos, read_end)
             ELSE walk_end(cigar, icig + 1, read_pos, read_end)

\* mutant: the slice ends at the new length, counted from the old start
rewrite_read_short_slice(read, read_start, read_end) ==
    LET start == IF read_start = 0
                 THEN [cigar |-> read.cigar, ref_start |-> read.pos]
                 ELSE walk_start(read.cigar, 1, read.cigar, 0, read.pos, read_start)
        len == read_end - read_start
        cigar == IF len + read_start < rlen(read)
                 THEN walk_end(start.cigar, 1, 0, len)
                 ELSE start.cigar
    IN  [read EXCEPT !.pos = start.ref_start,
                     !.seq = PySlice(read.seq, read_start, len),
                     !.qual = PySlice(read.qual, read_start, len),
                     !.cigar = cigar]

\* "rewrite read such that CIGARs are fine" and "Write properties", for the span
\* [read_start, read_end) of the read
rewrite_read(read, read_start, read_end) ==
    LET start == IF read_start = 0
                 THEN [cigar |-> read.cigar, ref_start |-> read.pos]
                 ELSE walk_start(read.cigar, 1, read.cigar, 0, read.pos, read_start)
        len == read_end - read_start
        cigar == IF len + read_start < rlen(read)
                 THEN walk_end(start.cigar, 1, 0, len)
                 ELSE start.cigar
    IN  [read EXCEPT !.pos = start.ref_start,
                     !.seq = PySlice(read.seq, read_start, read_start + len),
                     !.qual = PySlice(read.qual, read_start, read_start + len),
                     !.cigar = cigar]

\* the body of "for read in read_pair": what happens to one read.
\* status is "continue" (read untouched), "tampered" or "return True"
trim_read_low_quality(read, phred_min) ==
    LET phred == phred_of(read.qual)
        read_start == left_edge(phred, phred_min, 0)
        read_end == right_edge(phred, phred_min, read_start, rlen(read))
    IN  IF ind_all(phred, phred_min) THEN [status |-> "continue", read |-> read]
        ELSE IF read_start < 0 THEN [status |-> "return True", read |-> read]
        ELSE IF read_end < 0 THEN [status |-> "return True", read |-> read]
        ELSE IF widespread_low(phred, phred_min, read_start, read_end)
        THEN [status |-> "return True", read |-> read]
        ELSE IF read_start = 0 /\ read_end = rlen(read)
        THEN [status |-> "continue", read |-> read]
        ELSE [status |-> "tampered", read |-> rewrite_read(read, read_start, read_end)]

\* mutant: the mate positions are left as they were
set_mpos_stale(rs) == rs

\* read_pair[i_fwd].mpos = read_pair[i_rev].pos and the converse
set_mpos(rs) ==
    LET f == i_fwd(rs)
        r == i_rev(rs)
        fwd == [rs[f] EXCEPT !.mpos = rs[r].pos]
        rev == [rs[r] EXCEPT !.mpos = rs[f].pos]
    IN  IF f = 1 THEN <<fwd, rev>> ELSE <<rev, fwd>>

\* read_pair[i_fwd].isize = isize; read_pair[i_rev].isize = -isize
set_isize(rs, isize) ==
    LET f == i_fwd(rs)
        r == i_rev(rs)
        fwd == [rs[f] EXCEPT !.isize = isize]
        rev == [rs[r] EXCEPT !.isize = 0 - isize]
    IN  IF f = 1 THEN <<fwd, rev>> ELSE <<rev, fwd>>

\* "Fix mate pair stuff" of trim_read_pair_low_quality: the mate positions are
\* written before the insert size is looked at
fix_mates_or_discard(rs) ==
    LET isize == fix_isize(rs)
    IN  IF isize <= 0
        THEN [reads |-> set_mpos(rs), ret |-> "True"]
        ELSE [reads |-> set_isize(set_mpos(rs), isize), ret |-> "False"]

\* The pair as the call leaves it and what it returns. A read already rewritten
\* stays rewritten when a later step returns True.
trim_read_pair_low_quality(rs, phred_min) ==
    LET t1 == trim_read_low_quality(rs[1], phred_min)
        t2 == trim_read_low_quality(rs[2], phred_min)
        tampered == t1.status = "tampered" \/ t2.status = "tampered"
    IN  IF t1.status = "return True" THEN [reads |-> rs, ret |-> "True"]
        ELSE IF t2.status = "return True" THEN [reads |-> <<t1.read, rs[2]>>, ret |-> "True"]
        ELSE IF tampered THEN fix_mates_or_discard(<<t1.read, t2.read>>)
        ELSE [reads |-> rs, ret |-> "False"]

----------------------------------------------------------------------------
(* Inputs of trim_read_pair_low_quality                                    *)

MaxLowRun == 7

ReadLens == {45, 55, 70}

MidRuns == {0, 1, 6}

\* the quality string of a read of n bases: lead bases of phred 19 at the left
\* edge, tail bases of phred 10 at the right edge, mid bases of phred 10 from
\* base 20 on, and phred 20 or 30 everywhere else
QualOf(n, lead, tail, mid) ==
    [i \in 1..n |->
        IF i <= lead THEN 52
        ELSE IF i > n - tail THEN 43
        ELSE IF i > 20 /\ i <= 20 + mid THEN 43
        ELSE IF i % 2 = 0 THEN 53 ELSE 63]

\* CIGARs of n bases: one match; a deletion near the start; an insertion at the
\* start and a deletion near the end; an insertion next to a deletion near the end
CigarShapes(n) ==
    { << <<MATCH, n>> >>,
      << <<MATCH, 3>>, <<DELETION, 2>>, <<MATCH, n - 3>> >>,
      << <<INSERTION, 2>>, <<MATCH, n - 4>>, <<DELETION, 1>>, <<MATCH, 2>> >>,
      << <<MATCH, n - 7>>, <<INSERTION, 2>>, <<DELETION, 1>>, <<MATCH, 5>> >> }

QRead(pos, mpos, isize, cigar, qual, rev) ==
    [pos |-> pos, mpos |-> mpos, isize |-> isize, cigar |-> cigar,
     seq |-> Bases(Len(qual)), qual |-> qual, is_reverse |-> rev]

\* a pair that passes test_read_pair_integrity, made of two reads with the given
\* CIGARs and quality strings; the forward read starts gap bases after the
\* reverse read, first tells which of the two comes first in the file
QPair(cigar_a, qual_a, cigar_b, qual_b, gap, a_is_fwd, a_first) ==
    LET cigar_f == IF a_is_fwd THEN cigar_a ELSE cigar_b
        cigar_r == IF a_is_fwd THEN cigar_b ELSE cigar_a
        qual_f == IF a_is_fwd THEN qual_a ELSE qual_b
        qual_r == IF a_is_fwd THEN qual_b ELSE qual_a
        rpos == MaxPos
        fpos == rpos + gap
        isize == RefSpan(cigar_r) - gap
        f == QRead(fpos, rpos, isize, cigar_f, qual_f, FALSE)
        r == QRead(rpos, fpos, 0 - isize, cigar_r, qual_r, TRUE)
    IN  IF a_is_fwd = a_first THEN <<f, r>> ELSE <<r, f>>

\* the gaps tried for a reverse read of the given reference span: the two reads
\* start together, or the insert is 3 bases long
Gaps(span) == {0, span - 3}

InitQual ==
    /\ \E n_a \in ReadLens, lead \in 0..MaxLowRun, tail \in 0..MaxLowRun, mid \in MidRuns,
          n_b \in ReadLens, lead_b \in {0, 5}, a_is_fwd \in BOOLEAN, a_first \in BOOLEAN :
        \E cigar_a \in CigarShapes(n_a), cigar_b \in {<< <<MATCH, n_b>> >>} :
          \E gap \in Gaps(RefSpan(IF a_is_fwd THEN cigar_b ELSE cigar_a)) :
            reads = QPair(cigar_a, QualOf(n_a, lead, tail, mid),
                          cigar_b, QualOf(n_b, lead_b, 0, 0), gap, a_is_fwd, a_first)
    /\ entry = reads
    /\ arg = NoArg
    /\ op = "init"
    /\ ret = "None"

PhredMins == {20}

TrimReadPairLowQuality ==
    /\ op = "init"
    /\ \E phred_min \in PhredMins :
        LET r == trim_read_pair_low_quality(reads, phred_min)
        IN  /\ reads' = r.reads
            /\ ret' = r.ret
            /\ arg' = [phred_min |-> phred_min]
    /\ entry' = reads
    /\ op' = "trim_read_pair_low_quality"

NextQual == TrimReadPairLowQuality

SpecQual == InitQual /\ [][NextQual]_vars

----------------------------------------------------------------------------
(* main_block_read_pair_low_quality                                        *)

\* ind = np.asarray(phred >= phred_min, int)
ind_of(phred, phred_min) == [i \in 1..Len(phred) |-> IF phred[i] >= phred_min THEN 1 ELSE 0]

\* ind.any()
ind_any(ind) == \E i \in 1..Len(ind) : ind[i] # 0

\* the members of a set of numbers in increasing order
Sorted(S) == [k \in 1..Cardinality(S) |->
                CHOOSE x \in S : Cardinality({y \in S : y < x}) = k - 1]

\* switch = np.diff(ind).nonzero()[0] + 1: the 0-based indices at which ind changes
switch_of(ind) == Sorted({i \in 1..(Len(ind) - 1) : ind[i + 1] # ind[i]})

\* a[start::2] for start 0 or 1
every_second(a, start) ==
    [k \in 1..((Len(a) - start + 1) \div 2) |-> a[start + 2 * k - 1]]

\* mutant: the last of the largest entries
argmax_last(a) == Max({k \in 1..Len(a) : \A j \in 1..Len(a) : a[j] <= a[k]})

\* a.argmax(): the position of the first of the largest entries
argmax(a) == Min({k \in 1..Len(a) : \A j \in 1..Len(a) : a[j] <= a[k]})

\* "divide in blocks", "keep only high-q blocks", "get largest": the 0-based
\* start and end of the largest high-quality block
largest_block(ind) ==
    LET switch == switch_of(ind)
        start == IF ind[1] # 0 THEN 0 ELSE 1
        ind_block_start == every_second(<<0>> \o switch, start)
        ind_block_end == every_second(switch \o <<Len(ind)>>, start)
        blocks_len == [k \in 1..Len(ind_block_start) |->
                            ind_block_end[k] - ind_block_start[k]]
        ind_largest_block == argmax(blocks_len)
    IN  [start |-> ind_block_start[ind_largest_block],
         end |-> ind_block_end[ind_largest_block],
         len |-> blocks_len[ind_largest_block]]

\* END of main_block_read_pair_low_quality: as walk_end, but a DELETION that
\* passes the test read_pos + bl >= read_end ends the walk
RECURSIVE main_block_walk_end(_, _, _, _)
main_block_walk_end(cigar, icig, read_pos, read_end) ==
    IF icig > Len(cigar) THEN <<>>
    ELSE LET bt == cigar[icig][1]
             bl == cigar[icig][2]
         IN  IF bt \in {0, 1}
             THEN IF read_pos + bl >= read_end
                  THEN << <<bt, read_end - read_pos>> >>
                  ELSE << <<bt, bl>> >>
                       \o main_block_walk_end(cigar, icig + 1, read_pos + bl, read_end)
             ELSE IF bt = 2
             THEN IF read_pos + bl >= read_end
                  THEN <<>>
                  ELSE << <<bt, bl>> >>
                       \o main_block_walk_end(cigar, icig + 1, read_pos, read_end)
             ELSE main_block_walk_end(cigar, icig + 1, read_pos, read_end)

\* "rewrite read such that CIGARs are fine" and "Write properties" for the block
\* [read_start, block_end); the START loop is the one of walk_start
main_block_rewrite_read(read, read_start, block_end) ==
    LET start == IF read_start = 0
                 THEN [cigar |-> read.cigar, ref_start |-> read.pos]
                 ELSE walk_start(read.cigar, 1, read.cigar, 0, read.pos, read_start)
        read_end == block_end - read_start
        cigar == IF read_end + read_start < rlen(read)
                 THEN main_block_walk_end(start.cigar, 1, 0, read_end)
                 ELSE start.cigar
    IN  [read EXCEPT !.pos = start.ref_start,
                     !.seq = PySlice(read.seq, read_start, read_start + read_end),
                     !.qual = PySlice(read.qual, read_start, read_start + read_end),
                     !.cigar = cigar]

\* the body of "for read in read_pair": what happens to one read
main_block_read(read, phred_min, read_len_min) ==
    LET ind == ind_of(phred_of(read.qual), phred_min)
        block == largest_block(ind)
    IN  IF ~ind_any(ind) THEN [status |-> "return True", read |-> read]
        ELSE IF \A i \in 1..Len(ind) : ind[i] # 0
        THEN [status |-> "continue", read |-> read]
        ELSE IF block.len < read_len_min THEN [status |-> "return True", read |-> read]
        ELSE [status |-> "tampered",
              read |-> main_block_rewrite_read(read, block.start, block.end)]

\* "Fix mate pair stuff" of main_block_read_pair_low_quality: no test on isize
main_block_fix_mates(rs) == set_isize(set_mpos(rs), fix_isize(rs))

\* The pair as the call leaves it and what it returns. A read already rewritten
\* stays rewritten when the other read makes the call return True.
main_block_read_pair_low_quality(rs, phred_min, read_len_min) ==
    LET t1 == main_block_read(rs[1], phred_min, read_len_min)
        t2 == main_block_read(rs[2], phred_min, read_len_min)
        tampered == t1.status = "tampered" \/ t2.status = "tampered"
    IN  IF t1.status = "return True" THEN [reads |-> rs, ret |-> "True"]
        ELSE IF t2.status = "return True" THEN [reads |-> <<t1.read, rs[2]>>, ret |-> "True"]
        ELSE IF tampered
        THEN [reads |-> main_block_fix_mates(<<t1.read, t2.read>>), ret |-> "False"]
        ELSE [reads |-> rs, ret |-> "False"]

----------------------------------------------------------------------------
(* Inputs of main_block_read_pair_low_quality                              *)

MaxReadLen == 4

\* quality strings of n bases of phred 19 or 20
QualStrings(n) == [1..n -> {52, 53}]

\* CIGARs of n bases: one match, or two matches around a deletion of 1 or 2, or
\* an insertion of 1 at the start, at the end or between two matches
MainCigars(n) ==
    { << <<MATCH, n>> >> }
    \cup { << <<MATCH, a>>, <<DELETION, d>>, <<MATCH, n - a>> >> :
                a \in 1..(n - 1), d \in {1, 2} }
    \cup { << <<MATCH, a>>, <<INSERTION, 1>>, <<MATCH, n - 1 - a>> >> : a \in 1..(n - 2) }
    \cup (IF n >= 2
          THEN { << <<INSERTION, 1>>, <<MATCH, n - 1>> >>,
                 << <<MATCH, n - 1>>, <<INSERTION, 1>> >> }
          ELSE {})

\* the quality strings of the other read of the pair: all good, all low, or low
\* at the first base only
MateQuals(n) ==
    { [i \in 1..n |-> 53], [i \in 1..n |-> 52], [i \in 1..n |-> IF i = 1 THEN 52 ELSE 53] }

\* the two reads start together, or the insert is 1 base long
MainGaps(span) == {0, span - 1}

InitMain ==
    /\ \E n_a \in 1..MaxReadLen, n_b \in 1..MaxReadLen,
          a_is_fwd \in BOOLEAN, a_first \in BOOLEAN :
        \E qual_a \in QualStrings(n_a), cigar_a \in MainCigars(n_a),
           qual_b \in MateQuals(n_b) :
          \E gap \in MainGaps(RefSpan(IF a_is_fwd THEN << <<MATCH, n_b>> >> ELSE cigar_a)) :
            reads = QPair(cigar_a, qual_a, << <<MATCH, n_b>> >>, qual_b,
                          gap, a_is_fwd, a_first)
    /\ entry = reads
    /\ arg = NoArg
    /\ op = "init"
    /\ ret = "None"

ReadLenMins == {1, 3}

MainBlockReadPairLowQuality ==
    /\ op = "init"
    /\ \E phred_min \in PhredMins, read_len_min \in ReadLenMins :
        LET r == main_block_read_pair_low_quality(reads, phred_min, read_len_min)
        IN  /\ reads' = r.reads
            /\ ret' = r.ret
            /\ arg' = [phred_min |-> phred_min, read_len_min |-> read_len_min]
    /\ entry' = reads
    /\ op' = "main_block_read_pair_low_quality"

NextMain == MainBlockReadPairLowQuality

SpecMain == InitMain /\ [][NextMain]_vars

----------------------------------------------------------------------------
(* trim_read_pair_crossoverhangs                                           *)

\* cigar[::-1]
Reverse(s) == [i \in 1..Len(s) |-> s[Len(s) + 1 - i]]

\* mutant: the forward read is cut at the end of the reverse read itself
fwd_limit_no_trim(end_rev, trim) == end_rev

\* the reference position the forward read is cut at: end_rev - trim
fwd_limit(end_rev, trim) == end_rev - trim

\* the reference position the reverse read is cut at: start_fwd + trim
rev_limit(start_fwd, trim) == start_fwd + trim

\* FWD: the for loop over read.cigar; limit is end_rev - trim, error tells that
\* the loop raised ValueError on an unrecognised code
RECURSIVE cross_fwd_walk(_, _, _, _, _)
cross_fwd_walk(cigar, icig, ref_pos, read_pos, limit) ==
    IF icig > Len(cigar) THEN [cigar |-> <<>>, read_pos |-> read_pos, error |-> FALSE]
    ELSE LET bt == cigar[icig][1]
             bl == cigar[icig][2]
             rest(ref, rd) ==
                LET w == cross_fwd_walk(cigar, icig + 1, ref, rd, limit)
                IN  [w EXCEPT !.cigar = << <<bt, bl>> >> \o w.cigar]
         IN  IF bt = 0
             THEN IF ref_pos + bl >= limit
                  THEN [cigar |-> << <<bt, limit - ref_pos>> >>,
                        read_pos |-> read_pos + limit - ref_pos, error |-> FALSE]
                  ELSE rest(ref_pos + bl, read_pos + bl)
             ELSE IF bt = 1 THEN rest(ref_pos, read_pos + bl)
             ELSE IF bt = 2
             THEN IF ref_pos + bl >= limit
                  THEN [cigar |-> <<>>, read_pos |-> read_pos, error |-> FALSE]
                  ELSE rest(ref_pos + bl, read_pos)
             ELSE [cigar |-> <<>>, read_pos |-> read_pos, error |-> TRUE]

\* REV: the for loop over read.cigar[::-1]; rcigar is the reversed CIGAR, limit is
\* start_fwd + trim, the cigar of the result is in the order of the appends
RECURSIVE cross_rev_walk(_, _, _, _, _)
cross_rev_walk(rcigar, icig, ref_pos, read_pos, limit) ==
    IF icig > Len(rcigar)
    THEN [cigar |-> <<>>, ref_pos |-> ref_pos, read_pos |-> read_pos, error |-> FALSE]
    ELSE LET bt == rcigar[icig][1]
             bl == rcigar[icig][2]
             rest(ref, rd) ==
                LET w == cross_rev_walk(rcigar, icig + 1, ref, rd, limit)
                IN  [w EXCEPT !.cigar = << <<bt, bl>> >> \o w.cigar]
         IN  IF bt = 0
             THEN IF ref_pos - bl <= limit
                  THEN [cigar |-> << <<bt, ref_pos - limit>> >>, ref_pos |-> limit,
                        read_pos |-> read_pos - (ref_pos - limit), error |-> FALSE]
                  ELSE rest(ref_pos - bl, read_pos - bl)
             ELSE IF bt = 1 THEN rest(ref_pos, read_pos - bl)
             ELSE IF bt = 2
             THEN IF ref_pos - bl <= limit
                  THEN [cigar |-> <<>>, ref_pos |-> ref_pos, read_pos |-> read_pos,
                        error |-> FALSE]
                  ELSE rest(ref_pos - bl, read_pos)
             ELSE [cigar |-> <<>>, ref_pos |-> ref_pos, read_pos |-> read_pos,
                   error |-> TRUE]

\* what the assignment read.cigar = cigar can do with a block of negative
\* length: the BAM record keeps lengths in an unsigned field, and the source
\* does not tell whether the library stores the value or raises
CigarSetters == {"stores", "raises"}

cigar_storable(cigar) == \A i \in 1..Len(cigar) : cigar[i][2] >= 0

cross_fix_mates_readlen(rs) == set_isize(set_mpos(rs), fix_isize_readlen(rs))

\* "Fix mate pair" of trim_read_pair_crossoverhangs
cross_fix_mates(rs) == set_isize(set_mpos(rs), fix_isize(rs))

\* the pair put back in file order
in_file_order(rs, fwd, rev) == IF i_fwd(rs) = 1 THEN <<fwd, rev>> ELSE <<rev, fwd>>

\* The pair as the call leaves it and what it returns or raises. The
\* assignments to a read come in the order seq, qual, cigar (pos first for the
\* reverse read), so a raise leaves the earlier ones done.
trim_read_pair_crossoverhangs(rs, trim, setter) ==
    LET fwd == rs[i_fwd(rs)]
        rev == rs[i_rev(rs)]
        end_rev == fwd.pos + fwd.isize
        fw == cross_fwd_walk(fwd.cigar, 1, fwd.pos, 0, fwd_limit(end_rev, trim))
        fwd_cut == [fwd EXCEPT !.seq = PySliceTo(fwd.seq, fw.read_pos),
                               !.qual = PySliceTo(fwd.qual, fw.read_pos)]
        fwd_new == [fwd_cut EXCEPT !.cigar = fw.cigar]
        rv == cross_rev_walk(Reverse(rev.cigar), 1, end_rev, rlen(rev),
                             rev_limit(fwd.pos, trim))
        rev_cut == [rev EXCEPT !.pos = rv.ref_pos,
                               !.seq = PySliceFrom(rev.seq, rv.read_pos),
                               !.qual = PySliceFrom(rev.qual, rv.read_pos)]
        rev_new == [rev_cut EXCEPT !.cigar = Reverse(rv.cigar)]
    IN  IF fw.error THEN [reads |-> rs, ret |-> "ValueError"]
        ELSE IF ~cigar_storable(fw.cigar) /\ setter = "raises"
        THEN [reads |-> in_file_order(rs, fwd_cut, rev), ret |-> "OverflowError"]
        ELSE IF rv.error
        THEN [reads |-> in_file_order(rs, fwd_new, rev), ret |-> "ValueError"]
        ELSE IF ~cigar_storable(rv.cigar) /\ setter = "raises"
        THEN [reads |-> in_file_order(rs, fwd_new, rev_cut), ret |-> "OverflowError"]
        ELSE [reads |-> cross_fix_mates(in_file_order(rs, fwd_new, rev_new)),
              ret |-> "None"]

----------------------------------------------------------------------------
(* Inputs of trim_read_pair_crossoverhangs                                 *)

MaxStart == 3

CrossTrims == {1, 2}

\* a pair that passes test_read_pair_integrity, in either file order
InitCross ==
    /\ \E n_f \in 1..MaxReadLen, n_r \in 1..MaxReadLen,
          fpos \in 0..MaxStart, rpos \in 0..MaxStart, fwd_first \in BOOLEAN :
        \E fcigar \in MainCigars(n_f), rcigar \in MainCigars(n_r) :
            LET isize == rpos + RefSpan(rcigar) - fpos
                f == MkRead(fpos, rpos, isize, fcigar, n_f, FALSE)
                r == MkRead(rpos, fpos, 0 - isize, rcigar, n_r, TRUE)
            IN  /\ isize > 0
                /\ reads = IF fwd_first THEN <<f, r>> ELSE <<r, f>>
    /\ entry = reads
    /\ arg = NoArg
    /\ op = "init"
    /\ ret = "None"

\* one call on the pair, and a second call with the same trim on what the first
\* one left
TrimReadPairCrossoverhangs ==
    /\ \/ op = "init"
       \/ op = "trim_read_pair_crossoverhangs" /\ ~arg.again
    /\ \E trim \in CrossTrims, setter \in CigarSetters :
        LET r == trim_read_pair_crossoverhangs(reads, trim, setter)
        IN  /\ op # "init" => trim = arg.trim
            /\ reads' = r.reads
            /\ ret' = r.ret
            /\ arg' = [trim |-> trim, again |-> op # "init"]
    /\ entry' = reads
    /\ op' = "trim_read_pair_crossoverhangs"

NextCross == TrimReadPairCrossoverhangs

SpecCross == InitCross /\ [][NextCross]_vars

----------------------------------------------------------------------------
(* pair_generator                                                          *)
(* reads is the iterable, arg the generator's frame (it: how many items    *)
(* the iterator has handed out, p1: the first item of the pair being       *)
(* built), op the point the generator is at.                               *)

\* it.next(): the next item, or StopIteration
it_next(iterable, it) ==
    IF it < Len(iterable)
    THEN [stop |-> FALSE, item |-> iterable[it + 1], it |-> it + 1]
    ELSE [stop |-> TRUE, item |-> 0, it |-> it]

\* mutant: the pair is yielded second item first
yield_pair_swapped(p1, p2) == <<p2, p1>>

\* yield (p1, p2)
yield_pair(p1, p2) == <<p1, p2>>

MaxStream == 4

Records == {1, 2, 3}

InitGen ==
    /\ \E n \in 0..MaxStream : reads \in [1..n -> Records]
    /\ entry = reads
    /\ arg = [it |-> 0, p1 |-> 0]
    /\ op = "init"
    /\ ret = <<>>

\* p1 = it.next(), on the first entry or when the generator is resumed after a
\* yield; StopIteration is re-raised and ends the generator
PairGeneratorFirst ==
    /\ op \in {"init", "yield"}
    /\ LET x == it_next(reads, arg.it)
       IN  IF x.stop
           THEN op' = "exhausted" /\ UNCHANGED arg
           ELSE op' = "p1" /\ arg' = [it |-> x.it, p1 |-> x.item]
    /\ UNCHANGED <<reads, entry, ret>>

\* p2 = it.next() and yield (p1, p2); StopIteration is re-raised and ends the
\* generator, p1 is lost
PairGeneratorSecond ==
    /\ op = "p1"
    /\ LET x == it_next(reads, arg.it)
       IN  IF x.stop
           THEN op' = "exhausted" /\ UNCHANGED <<arg, ret>>
           ELSE /\ op' = "yield"
                /\ arg' = [arg EXCEPT !.it = x.it]
                /\ ret' = Append(ret, yield_pair(arg.p1, x.item))
    /\ UNCHANGED <<reads, entry>>

NextGen == PairGeneratorFirst \/ PairGeneratorSecond

\* the consumer is a for loop over the generator: it asks for the next pair
\* until the generator is exhausted
SpecGen == InitGen /\ [][NextGen]_vars /\ WF_vars(NextGen)

----------------------------------------------------------------------------
(* test_read_pair_crossoverhang                                            *)

\* mutant: a forward read that spans exactly its insert counts as overhanging
test_read_pair_crossoverhang_geq(rs) ==
    \/ RefSpan(rs[i_fwd(rs)].cigar) >= rs[i_fwd(rs)].isize
    \/ rs[i_fwd(rs)].pos > rs[i_rev(rs)].pos

\* TRUE when the function returns True
test_read_pair_crossoverhang(rs) ==
    \/ RefSpan(rs[i_fwd(rs)].cigar) > rs[i_fwd(rs)].isize
    \/ rs[i_fwd(rs)].pos > rs[i_rev(rs)].pos

\* forward reference span 120 (or 100) against a recorded insert size of 100,
\* the reverse read starting at or before the forward one
ScenarioDPairs ==
    { << MkRead(10, p, 100, << <<MATCH, span - 2>>, <<DELETION, 2>> >>, span - 2, FALSE),
         MkRead(p, 10, 0 - 100, << <<MATCH, 50>> >>, 50, TRUE) >> :
        p \in {9, 10, 60}, span \in {100, 120} }

InitOverhang ==
    /\ (SmallPair \/ reads \in ScenarioDPairs)
    /\ entry = reads
    /\ arg = NoArg
    /\ op = "init"
    /\ ret = "None"

TestReadPairCrossoverhang ==
    /\ op = "init"
    /\ ret' = (IF test_read_pair_crossoverhang(reads) THEN "True" ELSE "False")
    /\ entry' = reads
    /\ arg' = NoArg
    /\ op' = "test_read_pair_crossoverhang"
    /\ UNCHANGED reads

NextOverhang == TestReadPairCrossoverhang

SpecOverhang == InitOverhang /\ [][NextOverhang]_vars

----------------------------------------------------------------------------
(* gac: the allele count table of a stream of reads.  The table has one    *)
(* plane for each read type js = 2 * is_read2 + is_reverse, one row for    *)
(* each symbol of the alphabet and one column for each position of the     *)
(* counted region.  The loop position is kept in arg.i; ret is the table   *)
(* counts (or "ValueError"), entry the table before the last read.         *)

read_types == 0 .. 3

alphaa == {"A", "C"}

\* counts = np.zeros((len(read_types), len(alphaa), length), int)
zeros(length) ==
    [js \in read_types |-> [a \in alphaa |-> [c \in 0 .. (length - 1) |-> 0]]]

\* the bases of a read that count for symbol a in column c: quality at least
\* qual_min, and a position inside the counted region
counted_bases(read, start, qual_min, a, c) ==
    {k \in 1 .. Len(read.seq) :
        /\ read.qual[k] >= qual_min
        /\ read.seq[k] = a
        /\ read.pos + (k - 1) - start = c}

\* the counting of one read into the plane of its read type: every counted base
\* adds one to its cell, a base outside the columns of the plane is skipped
get_allele_counts_aa_read(read, start, end, counts, qual_min) ==
    [a \in DOMAIN counts |-> [c \in DOMAIN counts[a] |->
        counts[a][c] + Cardinality(counted_bases(read, start, qual_min, a, c))]]

\* js = 2 * read.is_read2 + read.is_reverse
js_of(read) ==
    2 * (IF read.is_read2 THEN 1 ELSE 0) + (IF read.is_reverse THEN 1 ELSE 0)

gac_read_fresh_plane(counts, read, start, end, qual_min) ==
    [counts EXCEPT ![js_of(read)] =
        get_allele_counts_aa_read(read, start, end,
            [a \in DOMAIN counts[js_of(read)] |->
                [c \in DOMAIN counts[js_of(read)][a] |-> 0]], qual_min)]

\* one pass of the loop body: the plane counts[js] is updated in place
gac_read(counts, read, start, end, qual_min) ==
    [counts EXCEPT ![js_of(read)] =
        get_allele_counts_aa_read(read, start, end, counts[js_of(read)], qual_min)]

\* the loop from read number i (0-based) on: it stops at i == maxreads or at
\* the end of the stream
RECURSIVE gac_loop(_, _, _, _, _, _, _)
gac_loop(counts, stream, i, start, end, qual_min, maxreads) ==
    IF i = maxreads \/ i >= Len(stream)
    THEN counts
    ELSE gac_loop(gac_read(counts, stream[i + 1], start, end, qual_min),
                  stream, i + 1, start, end, qual_min, maxreads)

gac(stream, start, end, qual_min, maxreads) ==
    IF (end - start) % 3 # 0
    THEN "ValueError"
    ELSE gac_loop(zeros((end - start) \div 3), stream, 0, start, end,
                  qual_min, maxreads)

(* inputs: streams of at most MaxReads reads over a region of two columns;  *)
(* one read starts a column early, the other one ends a column late and    *)
(* has a base of low quality inside the region                             *)

MaxReads == 3

CountReads ==
    { [is_read2 |-> x[1], is_reverse |-> x[2], pos |-> x[3],
       seq |-> x[4][1], qual |-> x[4][2]] : x \in
      { y \in BOOLEAN \X BOOLEAN \X {0 - 1, 0} \X
               { << <<"A", "C">>, <<35, 35>> >>,
                 << <<"C", "C", "A">>, <<30, 20, 35>> >> } :
           Len(y[4][1]) = y[3] + 3 } }

InitCount ==
    /\ \E n \in 1 .. MaxReads : reads \in [1 .. n -> CountReads]
    /\ \E end \in {5, 6}, maxreads \in {0 - 1, 2} :
          arg = [start |-> 0, end |-> end, qual_min |-> 30,
                 maxreads |-> maxreads, i |-> 0]
    /\ entry = "None"
    /\ op = "init"
    /\ ret = "None"

\* lines 29-34: the region length is checked and the table is zeroed
GacOpen ==
    /\ op = "init"
    /\ IF (arg.end - arg.start) % 3 # 0
       THEN /\ ret' = "ValueError"
            /\ op' = "raise"
            /\ entry' = entry
       ELSE /\ ret' = zeros((arg.end - arg.start) \div 3)
            /\ op' = "loop"
            /\ entry' = zeros((arg.end - arg.start) \div 3)
    /\ UNCHANGED <<reads, arg>>

\* lines 43-62: one read of the stream is counted
GacRead ==
    /\ op = "loop"
    /\ arg.i # arg.maxreads
    /\ arg.i < Len(reads)
    /\ entry' = ret
    /\ ret' = gac_read(ret, reads[arg.i + 1], arg.start, arg.end, arg.qual_min)
    /\ arg' = [arg EXCEPT !.i = arg.i + 1]
    /\ UNCHANGED <<reads, op>>

\* lines 46-49, 64: the loop ends at maxreads or with the stream
GacReturn ==
    /\ op = "loop"
    /\ (arg.i = arg.maxreads \/ arg.i >= Len(reads))
    /\ op' = "return"
    /\ UNCHANGED <<reads, entry, arg, ret>>

NextCount == GacOpen \/ GacRead \/ GacReturn

SpecCount == InitCount /\ [][NextCount]_vars

----------------------------------------------------------------------------
(* get_insert_size_distribution: the insert sizes of the pairs of a stream. *)
(* reads is the stream of pairs that pair_generator yields, ret the array   *)
(* insert_sizes that the call returns.                                      *)

\* maxreads = 1e6 when no positive maxreads is given
default_maxreads == 1000000

\* a value stored in an array of np.int16
to_int16(x) == ((x + 32768) % 65536) - 32768

\* "If unmapped or unpaired, mini, or insert size mini, discard"
pair_is_skipped(pair) ==
    \/ pair[1].is_unmapped
    \/ ~pair[1].is_proper_pair
    \/ pair[2].is_unmapped
    \/ ~pair[2].is_proper_pair

\* reads[i_fwd].isize with i_fwd = reads[0].is_reverse
isize_fwd(pair) == pair[i_fwd(pair)].isize

\* the loop over the pairs from pair number i (0-based) on; insert_sizes is the
\* array (indices from 0), n_written the counter
RECURSIVE insert_sizes_loop(_, _, _, _, _)
insert_sizes_loop(stream, i, maxreads, insert_sizes, n_written) ==
    IF i >= Len(stream) \/ i = maxreads
    THEN [insert_sizes |-> insert_sizes, n_written |-> n_written]
    ELSE IF pair_is_skipped(stream[i + 1])
    THEN insert_sizes_loop(stream, i + 1, maxreads, insert_sizes, n_written)
    ELSE insert_sizes_loop(stream, i + 1, maxreads,
            [insert_sizes EXCEPT ![i] = to_int16(isize_fwd(stream[i + 1]))],
            n_written + 1)

\* s with x put before its first entry that is larger
RECURSIVE sort_insert(_, _)
sort_insert(s, x) ==
    IF s = <<>> THEN <<x>>
    ELSE IF x <= Head(s) THEN <<x>> \o s
    ELSE <<Head(s)>> \o sort_insert(Tail(s), x)

\* insert_sizes.sort()
RECURSIVE sort(_)
sort(s) == IF s = <<>> THEN <<>> ELSE sort_insert(sort(Tail(s)), Head(s))

\* The array the call returns. Of the maxreads zeros of the array only the
\* first min(maxreads, number of pairs) can be written or returned, and only
\* these are kept here.
get_insert_size_distribution(stream, maxreads_arg) ==
    LET maxreads == IF maxreads_arg <= 0 THEN default_maxreads ELSE maxreads_arg
        size == IF maxreads < Len(stream) THEN maxreads ELSE Len(stream)
        r == insert_sizes_loop(stream, 0, maxreads, [j \in 0 .. (size - 1) |-> 0], 0)
    IN  sort([j \in 1 .. r.n_written |-> r.insert_sizes[j - 1]])

(* inputs: streams of at most MaxPairs pairs; a pair is kept (forward read  *)
(* first or second) or skipped (a read unmapped or not properly paired)     *)

MaxPairs == 3

InsertRead(unmapped, proper, rev, isize) ==
    [is_unmapped |-> unmapped, is_proper_pair |-> proper, is_reverse |-> rev,
     isize |-> isize]

InsertPairs ==
    { << InsertRead(FALSE, TRUE, FALSE, 100), InsertRead(FALSE, TRUE, TRUE, 0 - 100) >>,
      << InsertRead(FALSE, TRUE, TRUE, 0 - 250), InsertRead(FALSE, TRUE, FALSE, 250) >>,
      << InsertRead(FALSE, TRUE, FALSE, 40000), InsertRead(FALSE, TRUE, TRUE, 0 - 40000) >>,
      << InsertRead(TRUE, FALSE, FALSE, 0), InsertRead(FALSE, FALSE, TRUE, 0) >>,
      << InsertRead(FALSE, TRUE, FALSE, 300), InsertRead(FALSE, FALSE, TRUE, 0 - 300) >> }

InitInsert ==
    /\ \E n \in 0 .. MaxPairs : reads \in [1 .. n -> InsertPairs]
    /\ entry = reads
    /\ arg = NoArg
    /\ op = "init"
    /\ ret = "None"

GetInsertSizeDistribution ==
    /\ op = "init"
    /\ \E maxreads \in {0 - 1, 1, 2} :
        /\ ret' = get_insert_size_distribution(reads, maxreads)
        /\ arg' = [maxreads |-> maxreads]
    /\ entry' = reads
    /\ op' = "get_insert_size_distribution"
    /\ UNCHANGED reads

NextInsert == GetInsertSizeDistribution

SpecInsert == InitInsert /\ [][NextInsert]_vars

----------------------------------------------------------------------------
(* extract_mapped_pairs_subsample_open: a random subsample of the pairs of  *)
(* an open file.  reads is the stream of records; ret holds what the call   *)
(* returns or raises, the pairs it returns (for the generator: the pairs it *)
(* yields when it is run) and the position of the stream afterwards.        *)

\* n_reads = sum(1 for read in bamfile)
get_number_reads_open(bamfile) == Len(bamfile)

\* the pairs that pair_generator yields from position it of the stream on
RECURSIVE pair_generator_from(_, _)
pair_generator_from(stream, it) ==
    LET x == it_next(stream, it)
        y == it_next(stream, x.it)
    IN  IF x.stop \/ y.stop THEN <<>>
        ELSE <<yield_pair(x.item, y.item)>> \o pair_generator_from(stream, y.it)

\* maxreads after "Limit to the first part of the file"
limit_maxreads(n_pairs_tot, maxreads) ==
    IF maxreads = 0 - 1 THEN n_pairs_tot
    ELSE IF n_pairs_tot < maxreads THEN n_pairs_tot ELSE maxreads

\* what np.random.shuffle and the slice [:n_reads] can leave in ind_store, before
\* the sort: the sets of min(n_reads, maxreads) of the indices 0 .. maxreads - 1
ind_stores(maxreads, n_reads) ==
    {S \in SUBSET (0 .. (maxreads - 1)) :
        Cardinality(S) = (IF n_reads < maxreads THEN n_reads ELSE maxreads)}

\* the loop over enumerate(pair_generator(bamfile_in)) from pair number i on;
\* ind_store[n_written] raises IndexError when ind_store has no such entry
RECURSIVE subsample_loop(_, _, _, _, _, _)
subsample_loop(pairs, i, ind_store, n_reads, output_reads, n_written) ==
    IF i >= Len(pairs)
    THEN [kind |-> "list", pairs |-> output_reads, i |-> i]
    ELSE IF n_written >= Len(ind_store)
    THEN [kind |-> "IndexError", pairs |-> output_reads, i |-> i]
    ELSE LET hit == i = ind_store[n_written + 1]
             out == IF hit THEN Append(output_reads, pairs[i + 1]) ELSE output_reads
             n == IF hit THEN n_written + 1 ELSE n_written
         IN  IF n >= n_reads
             THEN [kind |-> "list", pairs |-> out, i |-> i]
             ELSE subsample_loop(pairs, i + 1, ind_store, n_reads, out, n)

\* The call for one outcome of the shuffle. The generator returned for a short
\* file has not run yet; an IndexError leaves the stream after the pair the loop
\* was at.
extract_mapped_pairs_subsample_open(bamfile_in, n_reads, maxreads, shuffled) ==
    LET n_pairs_tot == get_number_reads_open(bamfile_in) \div 2
        pairs == pair_generator_from(bamfile_in, 0)
        r == subsample_loop(pairs, 0, Sorted(shuffled), n_reads, <<>>, 0)
    IN  IF n_pairs_tot <= n_reads
        THEN [kind |-> "generator", pairs |-> pairs, position |-> 0]
        ELSE IF r.kind = "IndexError"
        THEN [kind |-> "IndexError", pairs |-> r.pairs,
              position |-> 2 * (r.i + 1)]
        ELSE [kind |-> "list", pairs |-> r.pairs, position |-> 0]

(* inputs: streams of at most MaxRecords records, each with its own label  *)

MaxRecords == 7

NReads == {0, 1, 2}

MaxReadsArgs == {0 - 1, 1, 2, 3}

InitSubsample ==
    /\ \E n \in 0 .. MaxRecords : reads = [i \in 1 .. n |-> i]
    /\ entry = reads
    /\ arg = NoArg
    /\ op = "init"
    /\ ret = "None"

ExtractMappedPairsSubsampleOpen ==
    /\ op = "init"
    /\ \E n_reads \in NReads, maxreads \in MaxReadsArgs :
        \E shuffled \in ind_stores(
                limit_maxreads(get_number_reads_open(reads) \div 2, maxreads), n_reads) :
            /\ ret' = extract_mapped_pairs_subsample_open(reads, n_reads, maxreads,
                                                          shuffled)
            /\ arg' = [n_reads |-> n_reads, maxreads |-> maxreads]
    /\ entry' = reads
    /\ op' = "extract_mapped_pairs_subsample_open"
    /\ UNCHANGED reads

NextSubsample == ExtractMappedPairsSubsampleOpen

SpecSubsample == InitSubsample /\ [][NextSubsample]_vars

----------------------------------------------------------------------------
(* Properties of the CIGAR calls                                           *)

\* block i is a MATCH of length >= match_len_min
IsGood(cigar, i, match_len_min) ==
    cigar[i][1] = MATCH /\ cigar[i][2] >= match_len_min

GoodSet(cigar, match_len_min) ==
    {i \in 1..Len(cigar) : IsGood(cigar, i, match_len_min)}

FirstGood(cigar, match_len_min) ==
    CHOOSE i \in GoodSet(cigar, match_len_min) :
        \A j \in GoodSet(cigar, match_len_min) : i <= j

LastGood(cigar, match_len_min) ==
    CHOOSE i \in GoodSet(cigar, match_len_min) :
        \A j \in GoodSet(cigar, match_len_min) : i >= j

Recognised(cigar, from, to) ==
    \A i \in from..to : cigar[i][1] \in {MATCH, INSERTION, DELETION}

\* C6 as stated: entry i of the mask is True iff block i is a MATCH of length
\* >= match_len_min, for every CIGAR.
C6_MaskIsPerBlock ==
    op = "get_ind_good_cigars" =>
        /\ Len(ret.good_cigars) = Len(arg.cigar)
        /\ \A i \in 1..Len(arg.cigar) :
                ret.good_cigars[i] <=> IsGood(arg.cigar, i, arg.match_len_min)

\* C6 amended: the mask has one entry per block, and entry i is True iff block i
\* lies between the first and the last MATCH block of length >= match_len_min,
\* both included (so with at most one such block: iff block i is that block);
\* [(MATCH,5),(INSERTION,2),(MATCH,30)] with match_len_min = 20 gives
\* [False, False, True].
C6_MaskIsFirstToLastGood ==
    op = "get_ind_good_cigars" =>
        /\ Len(ret.good_cigars) = Len(arg.cigar)
        /\ \A i \in 1..Len(arg.cigar) :
                ret.good_cigars[i] <=>
                    /\ GoodSet(arg.cigar, arg.match_len_min) # {}
                    /\ FirstGood(arg.cigar, arg.match_len_min) <= i
                    /\ i <= LastGood(arg.cigar, arg.match_len_min)
        /\ (arg.cigar = ScenarioACigar /\ arg.match_len_min = 20)
                => ret.good_cigars = <<FALSE, FALSE, TRUE>>

\* two long matches with a block that is not one in between: the mask is all True
C6_Witness ==
    /\ op = "get_ind_good_cigars"
    /\ Len(arg.cigar) = 3
    /\ IsGood(arg.cigar, 1, arg.match_len_min)
    /\ ~IsGood(arg.cigar, 2, arg.match_len_min)
    /\ IsGood(arg.cigar, 3, arg.match_len_min)
    /\ ret.good_cigars = <<TRUE, TRUE, TRUE>>

\* the range the claims describe: from the start of the first good block to the
\* end of the last one, trimmed on a side only when blocks were cut there
ExpectedRange(a) ==
    LET first == FirstGood(a.cigar, a.match_len_min)
        last == LastGood(a.cigar, a.match_len_min)
        before == SubSeq(a.cigar, 1, first - 1)
        upto == SubSeq(a.cigar, 1, last)
        tl == IF first # 1 THEN a.trim_left ELSE 0
        tr == IF last # Len(a.cigar) THEN a.trim_right ELSE 0
    IN  [kind |-> "range",
         read |-> <<ReadSpan(before) + tl, ReadSpan(upto) - tr>>,
         ref |-> <<a.pos + RefSpan(before) + tl, a.pos + RefSpan(upto) - tr>>]

\* C7 as stated: the null range when no block is a MATCH of length >=
\* match_len_min; otherwise (for every other CIGAR) the read- and reference-space
\* intervals from the first to the last such block, trimmed by trim_left only when
\* the first good block is not the first block and by trim_right only when the
\* last good block is not the last block.
C7_RangeOfGoodCigars ==
    op = "get_range_good_cigars" =>
        IF GoodSet(arg.cigar, arg.match_len_min) = {}
        THEN ret = RangeNone
        ELSE ret = ExpectedRange(arg)

\* C7 amended: as stated, for a CIGAR whose blocks up to the last good block are
\* all MATCH, INSERTION or DELETION (otherwise the call raises ValueError and
\* returns nothing); get_trims_from_good_cigars puts trim_left / trim_right on the
\* same blocks under the same conditions.
C7_RangeOfRecognisedCigars ==
    /\ op = "get_range_good_cigars" =>
        IF GoodSet(arg.cigar, arg.match_len_min) = {}
        THEN ret = RangeNone
        ELSE IF Recognised(arg.cigar, 1, LastGood(arg.cigar, arg.match_len_min))
        THEN ret = ExpectedRange(arg)
        ELSE ret = RangeError
    /\ op = "get_trims_from_good_cigars" =>
        /\ Len(ret) = Len(arg.cigar)
        /\ \A i \in 1..Len(arg.cigar) :
            /\ ret[i][1] =
                IF /\ GoodSet(arg.cigar, arg.match_len_min) # {}
                   /\ i = FirstGood(arg.cigar, arg.match_len_min)
                   /\ i # 1
                THEN arg.trim_left ELSE 0
            /\ ret[i][2] =
                IF /\ GoodSet(arg.cigar, arg.match_len_min) # {}
                   /\ i = LastGood(arg.cigar, arg.match_len_min)
                   /\ i # Len(arg.cigar)
                THEN arg.trim_right ELSE 0

\* a range whose first good block is the first block (no left trim) and whose last
\* good block is followed by another block (right trim), with trims that show
C7_Witness ==
    /\ op = "get_range_good_cigars"
    /\ ret.kind = "range"
    /\ arg.trim_left > 0
    /\ arg.trim_right > 0
    /\ FirstGood(arg.cigar, arg.match_len_min) = 1
    /\ LastGood(arg.cigar, arg.match_len_min) = 2
    /\ Len(arg.cigar) = 3
    /\ ret.read[1] = 0
    /\ ret.ref[1] = arg.pos
    /\ ret.read[2] = ReadSpan(SubSeq(arg.cigar, 1, 2)) - arg.trim_right

NoIndelBetweenGood(a) ==
    \A i \in FirstGood(a.cigar, a.match_len_min)..LastGood(a.cigar, a.match_len_min) :
        a.cigar[i][1] \notin {INSERTION, DELETION}

\* C8 as stated: for all CIGARs with at least one block of length >=
\* match_len_min the range is non-null, and its read-space length equals its
\* reference-space length when the blocks from the first to the last good block
\* hold no INSERTION or DELETION.
C8_LongBlockGivesRange ==
    (/\ op = "get_range_good_cigars"
     /\ \E i \in 1..Len(arg.cigar) : arg.cigar[i][2] >= arg.match_len_min)
        => /\ ret.kind = "range"
           /\ NoIndelBetweenGood(arg)
                => ret.read[2] - ret.read[1] = ret.ref[2] - ret.ref[1]

\* C8 amended: for all CIGARs of MATCH/INSERTION/DELETION blocks with at least one
\* MATCH block of length >= match_len_min the range is non-null, and its
\* read-space length equals its reference-space length when the blocks from the
\* first to the last good block hold no INSERTION or DELETION.
C8_LongMatchGivesRange ==
    (/\ op = "get_range_good_cigars"
     /\ Recognised(arg.cigar, 1, Len(arg.cigar))
     /\ \E i \in 1..Len(arg.cigar) : IsGood(arg.cigar, i, arg.match_len_min))
        => /\ ret.kind = "range"
           /\ NoIndelBetweenGood(arg)
                => ret.read[2] - ret.read[1] = ret.ref[2] - ret.ref[1]

\* two adjacent long matches after an insertion, cut on the left: a range of equal
\* length on both axes, although its read and reference offsets differ
C8_Witness ==
    /\ op = "get_range_good_cigars"
    /\ Recognised(arg.cigar, 1, Len(arg.cigar))
    /\ GoodSet(arg.cigar, arg.match_len_min) = {2, 3}
    /\ Len(arg.cigar) = 3
    /\ arg.cigar[1][1] = INSERTION
    /\ arg.trim_left > 0
    /\ ret.kind = "range"
    /\ ret.read[2] - ret.read[1] = ret.ref[2] - ret.ref[1]
    /\ ret.read[1] # ret.ref[1] - arg.pos

\* C9: if match_len_min > trim_left + trim_right (both >= 0), every non-null range
\* returned is non-empty and well ordered on both axes, start_read >= 0 and
\* start_ref >= pos.
C9_RangeWellOrdered ==
    (/\ op = "get_range_good_cigars"
     /\ ret.kind = "range"
     /\ arg.trim_left >= 0
     /\ arg.trim_right >= 0
     /\ arg.match_len_min > arg.trim_left + arg.trim_right)
        => /\ ret.read[1] < ret.read[2]
           /\ ret.ref[1] < ret.ref[2]
           /\ ret.read[1] >= 0
           /\ ret.ref[1] >= arg.pos

\* a single good block in the middle, trimmed on both sides, of the least length
\* the precondition allows: one base is left
C9_Witness ==
    /\ op = "get_range_good_cigars"
    /\ ret.kind = "range"
    /\ arg.trim_left = 1
    /\ arg.trim_right = 1
    /\ arg.match_len_min = 3
    /\ Len(arg.cigar) = 3
    /\ GoodSet(arg.cigar, arg.match_len_min) = {2}
    /\ arg.cigar[2][2] = 3
    /\ ret.read[2] - ret.read[1] = 1
    /\ ret.ref[2] - ret.ref[1] = 1

HasUnrecognised(cigar) ==
    \E i \in 1..Len(cigar) : cigar[i][1] \notin {MATCH, INSERTION, DELETION}

\* C10 as stated: get_range_good_cigars raises ValueError for every CIGAR that
\* contains a block whose code is not MATCH, INSERTION or DELETION, wherever the
\* block lies, and never returns a range for such a CIGAR.
C10_UnrecognisedAlwaysRaises ==
    (op = "get_range_good_cigars" /\ HasUnrecognised(arg.cigar))
        => ret.kind = "ValueError"

\* C10 amended: get_range_good_cigars raises ValueError exactly when the CIGAR has
\* a MATCH block of length >= match_len_min and a block whose code is not MATCH,
\* INSERTION or DELETION lies before the last such MATCH block; an unrecognised
\* block after the last good block is ignored (a range is returned), and with no
\* good block the null range is returned.
C10_UnrecognisedRaisesUpToLastGood ==
    op = "get_range_good_cigars" =>
        /\ (ret.kind = "ValueError") <=>
                /\ GoodSet(arg.cigar, arg.match_len_min) # {}
                /\ ~Recognised(arg.cigar, 1, LastGood(arg.cigar, arg.match_len_min))
        /\ (HasUnrecognised(arg.cigar) /\ ret.kind = "None")
                => GoodSet(arg.cigar, arg.match_len_min) = {}

\* an unrecognised block between two long matches: the call raises
C10_Witness ==
    /\ op = "get_range_good_cigars"
    /\ Len(arg.cigar) = 3
    /\ IsGood(arg.cigar, 1, arg.match_len_min)
    /\ arg.cigar[2][1] = SOFTCLIP
    /\ IsGood(arg.cigar, 3, arg.match_len_min)
    /\ ret.kind = "ValueError"

----------------------------------------------------------------------------
(* Properties of trim_short_cigars                                         *)

TrimSucceeded == ret \in {"None", "False"}

\* the first block is not a MATCH of length >= match_len_min
LeftEdgeNeedsTrim(cigar, match_len_min) == ~IsGood(cigar, 1, match_len_min)

PositiveBlocks(cigar) == \A i \in 1..Len(cigar) : cigar[i][2] > 0

\* C4: for a read of MATCH/INSERTION/DELETION blocks of positive length whose
\* MATCH+INSERTION sum is its sequence length, and match_len_min > trim_pad >= 0:
\* when trim_short_cigars succeeds, the new CIGAR's MATCH+INSERTION sum is the new
\* sequence and quality length, the new start is the old one plus the reference
\* length of the dropped leading blocks plus trim_pad if the left edge was trimmed
\* (unchanged otherwise), and the CIGAR neither starts nor ends with a DELETION.
C4_TrimKeepsCigarConsistent ==
    (/\ op = "trim_short_cigars"
     /\ TrimSucceeded
     /\ Recognised(entry[1].cigar, 1, Len(entry[1].cigar))
     /\ PositiveBlocks(entry[1].cigar)
     /\ ReadSpan(entry[1].cigar) = Len(entry[1].seq)
     /\ arg.match_len_min > arg.trim_pad
     /\ arg.trim_pad >= 0)
        => LET old == entry[1]
               new == reads[1]
               first == FirstGood(old.cigar, arg.match_len_min)
           IN  /\ ReadSpan(new.cigar) = Len(new.seq)
               /\ ReadSpan(new.cigar) = Len(new.qual)
               /\ new.pos =
                    IF LeftEdgeNeedsTrim(old.cigar, arg.match_len_min)
                    THEN old.pos + RefSpan(SubSeq(old.cigar, 1, first - 1)) + arg.trim_pad
                    ELSE old.pos
               /\ new.cigar # <<>>
               /\ new.cigar[1][1] # DELETION
               /\ new.cigar[Len(new.cigar)][1] # DELETION

\* a read that starts with a deletion and ends with an insertion around its one
\* long match is trimmed on both edges with a pad
C4_Witness ==
    /\ op = "trim_short_cigars"
    /\ TrimSucceeded
    /\ arg.match_len_min > arg.trim_pad
    /\ arg.trim_pad > 0
    /\ Len(entry[1].cigar) = 3
    /\ entry[1].cigar[1][1] = DELETION
    /\ entry[1].cigar[3][1] = INSERTION
    /\ Len(reads[1].cigar) = 1
    /\ reads[1].pos > entry[1].pos + arg.trim_pad
    /\ Len(reads[1].seq) < Len(entry[1].seq) - arg.trim_pad

\* C5: if the first block is not a MATCH of length >= match_len_min and the CIGAR
\* holds no MATCH block of length >= match_len_min at all (so the walk from the edge
\* finds none), the call fails: ValueError when throw is True, True when throw is
\* False; a successful call with throw False returns False.
C5_NoLongMatchFails ==
    op = "trim_short_cigars" =>
        /\ (/\ LeftEdgeNeedsTrim(entry[1].cigar, arg.match_len_min)
            /\ GoodSet(entry[1].cigar, arg.match_len_min) = {})
                => ret = (IF arg.throw THEN "ValueError" ELSE "True")
        /\ (~arg.throw /\ ret # "True") => ret = "False"

\* C11: an unrecognised CIGAR code (not MATCH, INSERTION or DELETION) met on the
\* walk from an edge is a format error: when the first block of the CIGAR carries
\* such a code, trim_short_cigars raises ValueError if throw is True and returns
\* True if throw is False, and the block is never the source of a MATCH block at
\* the head of the output CIGAR.
C11_UnrecognisedIsFormatError ==
    (/\ op = "trim_short_cigars"
     /\ ~Recognised(entry[1].cigar, 1, 1))
        => /\ ret = (IF arg.throw THEN "ValueError" ELSE "True")
           /\ reads[1].cigar = entry[1].cigar

----------------------------------------------------------------------------
(* Properties of the read-pair calls                                       *)

\* the forward and the reverse read of a pair, by their strand flags
FwdOf(rs) == CHOOSE i \in {1, 2} : ~rs[i].is_reverse

RevOf(rs) == CHOOSE i \in {1, 2} : rs[i].is_reverse

OtherFields(read) == [read EXCEPT !.mpos = 0, !.isize = 0]

StartsAndCigarsOk(rs) ==
    /\ rs[1].pos >= 0
    /\ rs[2].pos >= 0
    /\ ReadSpan(rs[1].cigar) = Len(rs[1].seq)
    /\ ReadSpan(rs[2].cigar) = Len(rs[2].seq)

\* C1 as stated: after fix_read_pair, every pair with starts >= 0 and CIGARs
\* matching the sequence lengths passes test_read_pair_integrity, whatever its
\* mate positions and insert sizes were.
C1_FixRestoresIntegrity ==
    (op = "fix_read_pair" /\ StartsAndCigarsOk(entry))
        => ~test_read_pair_integrity(reads)

\* C1 amended: after fix_read_pair, a pair with starts >= 0 and CIGARs matching
\* the sequence lengths passes test_read_pair_integrity provided the reverse read
\* ends (start + MATCH+DELETION sum) after the forward read's start, i.e. the
\* recomputed insert size is positive.
C1_FixRestoresIntegrityIfInsertPositive ==
    (/\ op = "fix_read_pair"
     /\ StartsAndCigarsOk(entry)
     /\ entry[RevOf(entry)].pos + RefSpan(entry[RevOf(entry)].cigar)
            > entry[FwdOf(entry)].pos)
        => ~test_read_pair_integrity(reads)

\* a pair with wrong mate fields and a positive insert has been fixed
C1_Witness ==
    /\ op = "fix_read_pair"
    /\ StartsAndCigarsOk(entry)
    /\ entry[RevOf(entry)].pos + RefSpan(entry[RevOf(entry)].cigar)
            > entry[FwdOf(entry)].pos
    /\ test_read_pair_integrity(entry)
    /\ entry[1].mpos # entry[2].pos
    /\ entry[FwdOf(entry)].isize <= 0

\* C2: fix_read_pair sets forward.mpos = reverse.pos, reverse.mpos = forward.pos,
\* forward.isize = reverse.pos - forward.pos + MATCH+DELETION sum of the reverse
\* CIGAR, reverse.isize = -forward.isize, and changes no other field.
C2_FixSetsFourFields ==
    op = "fix_read_pair" =>
        LET f == FwdOf(entry)
            r == RevOf(entry)
        IN  /\ reads[f].mpos = entry[r].pos
            /\ reads[r].mpos = entry[f].pos
            /\ reads[f].isize = entry[r].pos - entry[f].pos + RefSpan(entry[r].cigar)
            /\ reads[r].isize = 0 - reads[f].isize
            /\ OtherFields(reads[1]) = OtherFields(entry[1])
            /\ OtherFields(reads[2]) = OtherFields(entry[2])

\* the reverse read comes first in the pair, its CIGAR has a deletion, and all
\* four fields were wrong on entry
C2_Witness ==
    /\ op = "fix_read_pair"
    /\ entry[1].is_reverse
    /\ RefSpan(entry[1].cigar) # ReadSpan(entry[1].cigar)
    /\ reads[1].mpos # entry[1].mpos
    /\ reads[2].mpos # entry[2].mpos
    /\ reads[1].isize # entry[1].isize
    /\ reads[2].isize # entry[2].isize

\* the five conditions of the integrity test, as the claim lists them
IntegrityViolations(rs) ==
    LET f == FwdOf(rs)
        r == RevOf(rs)
    IN  \/ rs[f].pos < 0
        \/ rs[f].mpos # rs[r].pos
        \/ rs[r].mpos # rs[f].pos
        \/ rs[f].isize <= 0
        \/ rs[r].isize >= 0
        \/ rs[f].pos + rs[f].isize # rs[r].pos + RefSpan(rs[r].cigar)
        \/ ReadSpan(rs[f].cigar) # Len(rs[f].seq)
        \/ ReadSpan(rs[r].cigar) # Len(rs[r].seq)

\* C3: test_read_pair_integrity returns True iff one of the five conditions
\* holds; a pair with forward.start = 100, forward.isize = 250 and reverse
\* span 50 passes only if reverse.start = 300.
C3_IntegrityIffViolation ==
    op = "test_read_pair_integrity" =>
        /\ (ret = "True") <=> IntegrityViolations(reads)
        /\ ret \in {"True", "False"}
        /\ (/\ reads[FwdOf(reads)].pos = 100
            /\ reads[FwdOf(reads)].isize = 250
            /\ RefSpan(reads[RevOf(reads)].cigar) = 50
            /\ ret = "False") => reads[RevOf(reads)].pos = 300

\* the pair of the scenario with reverse.start = 301: only the insert-size
\* condition is violated, and the test reports it
C3_Witness ==
    /\ op = "test_read_pair_integrity"
    /\ ret = "True"
    /\ reads[FwdOf(reads)].pos = 100
    /\ reads[FwdOf(reads)].isize = 250
    /\ RefSpan(reads[RevOf(reads)].cigar) = 50
    /\ reads[RevOf(reads)].pos = 301
    /\ reads[FwdOf(reads)].mpos = 301
    /\ reads[RevOf(reads)].mpos = 100

----------------------------------------------------------------------------
(* Properties of trim_read_pair_low_quality                                *)

\* the number of bases lo .. hi-1 (0-based) of the read with phred >= phred_min
GoodIn(read, phred_min, lo, hi) ==
    Cardinality({i \in lo..(hi - 1) : i >= 0 /\ i < Len(read.qual)
                                      /\ read.qual[i + 1] - 33 >= phred_min})

AllGood(read, phred_min) == GoodIn(read, phred_min, 0, Len(read.qual)) = Len(read.qual)

\* the 10-base window starting at base lo has at least 9 good bases
WindowOk(read, phred_min, lo) == GoodIn(read, phred_min, lo, lo + 10) >= 9

\* the read needs no trimming: all bases good, or first and last window
\* qualifying with at least 90% of all bases good
NeedsNoTrim(read, phred_min) ==
    \/ AllGood(read, phred_min)
    \/ /\ WindowOk(read, phred_min, 0)
       /\ WindowOk(read, phred_min, Len(read.qual) - 10)
       /\ 10 * GoodIn(read, phred_min, 0, Len(read.qual)) >= 9 * Len(read.qual)

\* C12 as stated: if each read of the pair has every base at phred >= phred_min,
\* or has its first and last 10-base window qualifying (>= 9 good bases) with at
\* least 90% of all bases good, trim_read_pair_low_quality returns False and
\* leaves sequence, quality, CIGAR, start, mate position and insert size of both
\* reads unchanged.
C12_NoTrimNeededIsNoOp ==
    (/\ op = "trim_read_pair_low_quality"
     /\ \A i \in {1, 2} : NeedsNoTrim(entry[i], arg.phred_min))
        => (ret = "False" /\ reads = entry)

\* C12 amended: the same, for pairs in which every read that has a base below
\* phred_min is at least 50 bases long.
C12_NoTrimNeededIsNoOpIfLongEnough ==
    (/\ op = "trim_read_pair_low_quality"
     /\ \A i \in {1, 2} :
            /\ NeedsNoTrim(entry[i], arg.phred_min)
            /\ AllGood(entry[i], arg.phred_min) \/ Len(entry[i].seq) >= 50)
        => (ret = "False" /\ reads = entry)

\* neither read needs trimming, the second of the pair has a low-quality base at
\* its very edge and another one inside, and the call has returned False
C12_Witness ==
    /\ op = "trim_read_pair_low_quality"
    /\ \A i \in {1, 2} : NeedsNoTrim(entry[i], arg.phred_min)
    /\ Len(entry[2].seq) >= 50
    /\ entry[2].qual[1] - 33 < arg.phred_min
    /\ GoodIn(entry[2], arg.phred_min, 0, Len(entry[2].qual)) = Len(entry[2].qual) - 2
    /\ ret = "False"
    /\ reads = entry

\* the starts of the 10-base windows the left scan looks for: multiples of 5
\* whose window has at least 9 good bases
LeftPoints(read, phred_min) ==
    {s \in 0..Len(read.qual) : s % 5 = 0 /\ s + 10 <= Len(read.qual)
                               /\ WindowOk(read, phred_min, s)}

\* the ends of the windows the right scan looks for: values rlen - 5k whose
\* window has at least 9 good bases
RightPoints(read, phred_min) ==
    {e \in 10..Len(read.qual) : (Len(read.qual) - e) % 5 = 0
                                /\ WindowOk(read, phred_min, e - 10)}

\* C13: when the call returns False, a read with a base below phred_min keeps
\* exactly the span [s, e) of its sequence and quality, where s is the smallest
\* multiple of 5 whose window s..s+9 has at least 9 good bases and e the largest
\* value rlen - 5k whose window e-10..e-1 has at least 9 good bases; a read
\* whose only low-quality bases are its first 5 loses exactly its first 5 bases.
C13_RetainedSpanIsWindowToWindow ==
    (op = "trim_read_pair_low_quality" /\ ret = "False") =>
        \A i \in {1, 2} :
            LET old == entry[i]
                n == Len(old.qual)
                S == LeftPoints(old, arg.phred_min)
                E == RightPoints(old, arg.phred_min)
            IN  /\ ~AllGood(old, arg.phred_min) =>
                    /\ S # {}
                    /\ E # {}
                    /\ reads[i].seq = SubSeq(old.seq, Min(S) + 1, Max(E))
                    /\ reads[i].qual = SubSeq(old.qual, Min(S) + 1, Max(E))
                /\ (\A j \in 1..n : (old.qual[j] - 33 < arg.phred_min) <=> (j <= 5)) =>
                    /\ reads[i].seq = SubSeq(old.seq, 6, n)
                    /\ reads[i].qual = SubSeq(old.qual, 6, n)

\* a read has lost its first 10 and its last 5 bases and kept the one
\* low-quality base inside what remains
C13_Witness ==
    /\ op = "trim_read_pair_low_quality"
    /\ ret = "False"
    /\ \E i \in {1, 2} :
        /\ Len(entry[i].seq) = 70
        /\ reads[i].seq = SubSeq(entry[i].seq, 11, 65)
        /\ reads[i].qual = SubSeq(entry[i].qual, 11, 65)
        /\ GoodIn(reads[i], arg.phred_min, 0, 55) = 54

\* the left windows that start at a position <= rlen - 50
LeftInReach(read, phred_min) ==
    {s \in LeftPoints(read, phred_min) : s <= Len(read.qual) - 50}

\* the right windows that end at a position >= s + 50
RightInReach(read, phred_min, s) ==
    {e \in RightPoints(read, phred_min) : e >= s + 50}

NoLeftWindow(read, phred_min) == LeftInReach(read, phred_min) = {}

NoRightWindow(read, phred_min) ==
    /\ LeftInReach(read, phred_min) # {}
    /\ RightInReach(read, phred_min, Min(LeftInReach(read, phred_min))) = {}

RetainedSpanMostlyLow(read, phred_min) ==
    /\ LeftInReach(read, phred_min) # {}
    /\ RightInReach(read, phred_min, Min(LeftInReach(read, phred_min))) # {}
    /\ LET s == Min(LeftInReach(read, phred_min))
           e == Max(RightInReach(read, phred_min, s))
       IN  10 * GoodIn(read, phred_min, s, e) < 9 * (e - s)

\* C14: trim_read_pair_low_quality returns True whenever a read of the pair has a
\* base below phred_min and either no left window starting at a position
\* <= rlen - 50 qualifies, or no right window ending at a position >= left trim
\* point + 50 qualifies, or fewer than 90% of the bases of the retained span have
\* phred >= phred_min.
C14_DiscardsHopelessReads ==
    (/\ op = "trim_read_pair_low_quality"
     /\ \E i \in {1, 2} :
            /\ ~AllGood(entry[i], arg.phred_min)
            /\ \/ NoLeftWindow(entry[i], arg.phred_min)
               \/ NoRightWindow(entry[i], arg.phred_min)
               \/ RetainedSpanMostlyLow(entry[i], arg.phred_min))
        => ret = "True"

\* the first read of the pair is trimmed at its left edge, the second one has a
\* left window but no right window far enough from it, and the pair is discarded
C14_Witness ==
    /\ op = "trim_read_pair_low_quality"
    /\ ret = "True"
    /\ ~NeedsNoTrim(entry[1], arg.phred_min)
    /\ ~NoLeftWindow(entry[1], arg.phred_min)
    /\ ~NoRightWindow(entry[1], arg.phred_min)
    /\ ~RetainedSpanMostlyLow(entry[1], arg.phred_min)
    /\ ~AllGood(entry[2], arg.phred_min)
    /\ NoRightWindow(entry[2], arg.phred_min)
    /\ Min(LeftInReach(entry[2], arg.phred_min)) = 5
    /\ RightPoints(entry[2], arg.phred_min) # {}

\* C15: if the pair passes test_read_pair_integrity on entry and its CIGARs hold
\* only MATCH/INSERTION/DELETION blocks, then whenever trim_read_pair_low_quality
\* returns False the pair passes test_read_pair_integrity on exit: the mate
\* positions are mutually consistent, the forward insert size is > 0 and the
\* reverse one its negation, forward.pos + isize is the reverse read's reference
\* end, and each CIGAR's MATCH+INSERTION sum is the new sequence length.
C15_TrimKeepsIntegrity ==
    (/\ op = "trim_read_pair_low_quality"
     /\ ~test_read_pair_integrity(entry)
     /\ \A i \in {1, 2} : Recognised(entry[i].cigar, 1, Len(entry[i].cigar))
     /\ ret = "False")
        => LET f == FwdOf(reads)
               r == RevOf(reads)
           IN  /\ ~test_read_pair_integrity(reads)
               /\ reads[f].mpos = reads[r].pos
               /\ reads[r].mpos = reads[f].pos
               /\ reads[f].isize > 0
               /\ reads[r].isize = 0 - reads[f].isize
               /\ reads[f].pos + reads[f].isize = reads[r].pos + RefSpan(reads[r].cigar)
               /\ \A i \in {1, 2} : ReadSpan(reads[i].cigar) = Len(reads[i].seq)

\* both reads were trimmed, the start of each moved, the insert size changed,
\* and the call has returned False
C15_Witness ==
    /\ op = "trim_read_pair_low_quality"
    /\ ~test_read_pair_integrity(entry)
    /\ ret = "False"
    /\ \A i \in {1, 2} :
        /\ Len(reads[i].seq) < Len(entry[i].seq)
        /\ reads[i].pos > entry[i].pos
        /\ reads[i].mpos > entry[i].mpos
        /\ reads[i].isize # entry[i].isize
    /\ \E i \in {1, 2} : Len(reads[i].cigar) < Len(entry[i].cigar)

----------------------------------------------------------------------------
(* Properties of main_block_read_pair_low_quality                          *)

\* the maximal runs of consecutive good bases, as <<first, last>> (1-based)
GoodRuns(read, phred_min) ==
    LET n == Len(read.qual)
        good(i) == read.qual[i] - 33 >= phred_min
    IN  {run \in (1..n) \X (1..n) :
            /\ run[1] <= run[2]
            /\ \A i \in run[1]..run[2] : good(i)
            /\ run[1] = 1 \/ ~good(run[1] - 1)
            /\ run[2] = n \/ ~good(run[2] + 1)}

RunLen(run) == run[2] - run[1] + 1

\* the length of the longest run of good bases, 0 if there is none
LongestRun(read, phred_min) ==
    LET runs == GoodRuns(read, phred_min)
    IN  IF runs = {} THEN 0 ELSE Max({RunLen(run) : run \in runs})

\* the first of the longest runs
FirstLongestRun(read, phred_min) ==
    LET runs == GoodRuns(read, phred_min)
        longest == {run \in runs : RunLen(run) = LongestRun(read, phred_min)}
    IN  CHOOSE run \in longest : \A other \in longest : run[1] <= other[1]

\* C16: main_block_read_pair_low_quality returns True whenever, for either read,
\* the longest contiguous run of bases with phred >= phred_min is shorter than
\* read_len_min, reads whose bases are all good but which are shorter than
\* read_len_min included.
C16_ShortMainBlockDiscards ==
    (/\ op = "main_block_read_pair_low_quality"
     /\ \E i \in {1, 2} : LongestRun(entry[i], arg.phred_min) < arg.read_len_min)
        => ret = "True"

\* C17: when main_block_read_pair_low_quality returns False, each read's new
\* sequence and quality are the slice of the old ones that covers the longest
\* maximal run of good bases, the first one on ties; a read with every base
\* good is left whole.
C17_KeepsFirstLongestRun ==
    (op = "main_block_read_pair_low_quality" /\ ret = "False") =>
        \A i \in {1, 2} :
            LET run == FirstLongestRun(entry[i], arg.phred_min)
            IN  /\ reads[i].seq = SubSeq(entry[i].seq, run[1], run[2])
                /\ reads[i].qual = SubSeq(entry[i].qual, run[1], run[2])
                /\ AllGood(entry[i], arg.phred_min) =>
                        /\ reads[i].seq = entry[i].seq
                        /\ reads[i].qual = entry[i].qual
                        /\ reads[i].cigar = entry[i].cigar

\* one read has two longest runs of the same length and has kept the first, the
\* other read is wholly good and has been left whole
C17_Witness ==
    /\ op = "main_block_read_pair_low_quality"
    /\ ret = "False"
    /\ \E i \in {1, 2} :
        /\ Cardinality({run \in GoodRuns(entry[i], arg.phred_min) :
                            RunLen(run) = LongestRun(entry[i], arg.phred_min)}) = 2
        /\ entry[i].qual[1] - 33 < arg.phred_min
        /\ reads[i].seq = SubSeq(entry[i].seq, 2, 2)
        /\ AllGood(entry[3 - i], arg.phred_min)
        /\ reads[3 - i].seq = entry[3 - i].seq

----------------------------------------------------------------------------
(* Properties of trim_read_pair_crossoverhangs                             *)

\* the call just made is the first one on a pair from the stream
FirstCross == op = "trim_read_pair_crossoverhangs" /\ ~arg.again

\* the reference position the reverse read of the pair ended at on entry
EntryInsertEnd == entry[FwdOf(entry)].pos + entry[FwdOf(entry)].isize

ReadContent(read) == <<read.seq, read.qual, read.cigar>>

C19_CrossTrimIdempotent ==
    (op = "trim_read_pair_crossoverhangs" /\ arg.again) => reads = entry

----------------------------------------------------------------------------
(* Properties of pair_generator                                            *)

\* C20: over a stream of n records pair_generator yields the pairs
\* (record 2i, record 2i+1) in stream order, it ends (without error) having
\* yielded exactly floor(n/2) pairs and consumed all n records, so that the last
\* record of a stream of odd length is consumed but never yielded; and it does
\* end.
C20_YieldsPairsInOrderAndEnds ==
    /\ [](\A k \in 1..Len(ret) : ret[k] = <<reads[2 * k - 1], reads[2 * k]>>)
    /\ [](op = "exhausted" => (Len(ret) = Len(reads) \div 2 /\ arg.it = Len(reads)))
    /\ <>(op = "exhausted")

\* a stream of three records has given one pair, the third record was taken as
\* p1 and lost, and the generator has ended
C20_Witness ==
    /\ op = "exhausted"
    /\ Len(reads) = 3
    /\ reads[1] # reads[2]
    /\ ret = << <<reads[1], reads[2]>> >>
    /\ arg.it = 3
    /\ arg.p1 = reads[3]

----------------------------------------------------------------------------
(* Properties of test_read_pair_crossoverhang                              *)

\* C21: test_read_pair_crossoverhang returns True if and only if the forward
\* read's reference span (MATCH+DELETION sum) is strictly greater than the
\* forward read's insert size, or the forward read starts strictly after the
\* reverse read; a forward span of 120 with insert size 100 gives True.
C21_CrossoverhangIffSpanOrStart ==
    op = "test_read_pair_crossoverhang" =>
        LET fwd == reads[FwdOf(reads)]
            rev == reads[RevOf(reads)]
            span == CigarSum(fwd.cigar, {MATCH, DELETION})
        IN  /\ ret \in {"True", "False"}
            /\ (ret = "True") <=> (span > fwd.isize \/ fwd.pos > rev.pos)
            /\ (span = 120 /\ fwd.isize = 100) => ret = "True"

\* the pair of the scenario: forward span 120, insert size 100, the forward read
\* not after the reverse one, and the test has returned True; the same pair with
\* span 100 is among the inputs and gives False
C21_Witness ==
    /\ op = "test_read_pair_crossoverhang"
    /\ ret = "True"
    /\ RefSpan(reads[FwdOf(reads)].cigar) = 120
    /\ reads[FwdOf(reads)].isize = 100
    /\ reads[FwdOf(reads)].pos <= reads[RevOf(reads)].pos

----------------------------------------------------------------------------
(* Properties of gac                                                       *)

\* the cells of a count table
Cells(counts) ==
    {<<js, a, c>> : js \in DOMAIN counts, a \in alphaa,
                    c \in DOMAIN counts[0]["A"]}

RECURSIVE SumOver(_, _)
SumOver(counts, cells) ==
    IF cells = {} THEN 0
    ELSE LET x == CHOOSE y \in cells : TRUE
         IN  counts[x[1]][x[2]][x[3]] + SumOver(counts, cells \ {x})

TableTotal(counts) == SumOver(counts, Cells(counts))

\* cell-wise sum of two tables
TableSum(t1, t2) ==
    [js \in DOMAIN t1 |-> [a \in DOMAIN t1[js] |-> [c \in DOMAIN t1[js][a] |->
        t1[js][a][c] + t2[js][a][c]]]]

\* the reads the loop has processed so far, in stream order
Processed == SubSeq(reads, 1, arg.i)

Orders(n) ==
    {p \in [1 .. n -> 1 .. n] : \A i, j \in 1 .. n : p[i] = p[j] => i = j}

\* the reads of s at the indices of S, in the order of s
RECURSIVE Shard(_, _)
Shard(s, S) ==
    IF s = <<>> THEN <<>>
    ELSE Shard(SubSeq(s, 1, Len(s) - 1), S)
            \o (IF Len(s) \in S THEN <<s[Len(s)]>> ELSE <<>>)

\* the table of a stream counted whole
TableOf(s) == gac(s, arg.start, arg.end, arg.qual_min, 0 - 1)

----------------------------------------------------------------------------
(* Properties of the rewritten CIGARs of main_block_read_pair_low_quality  *)

\* the blocks of a CIGAR are MATCH, INSERTION and DELETION blocks only
OnlyMID(cigar) ==
    \A k \in 1 .. Len(cigar) : cigar[k][1] \in {MATCH, INSERTION, DELETION}

\* the CIGAR covers the sequence and does not end with a DELETION
CigarFitsSeq(read) ==
    /\ CigarSum(read.cigar, {MATCH, INSERTION}) = Len(read.seq)
    /\ read.cigar # <<>> => read.cigar[Len(read.cigar)][1] # DELETION

\* C23: when main_block_read_pair_low_quality returns False for a pair whose
\* reads had MATCH+INSERTION sums equal to their sequence lengths on entry
\* (MATCH, INSERTION and DELETION blocks only, a DELETION inside or next to the
\* retained run included), each read's resulting CIGAR has a MATCH+INSERTION sum
\* equal to the new sequence length and does not end with a DELETION.
C23_MainBlockCigarFitsSeq ==
    (/\ op = "main_block_read_pair_low_quality"
     /\ ret = "False"
     /\ \A i \in 1 .. 2 :
            /\ OnlyMID(entry[i].cigar)
            /\ CigarSum(entry[i].cigar, {MATCH, INSERTION}) = Len(entry[i].seq))
    => \A i \in 1 .. 2 : CigarFitsSeq(reads[i])

----------------------------------------------------------------------------
(* Properties of the new start of a read trimmed at its start              *)

\* the reference length that the blocks of a CIGAR from block icig on consume
\* before the read base number k (0-based, counted from read_pos): whole MATCH
\* and DELETION blocks, and the part of a MATCH block before the base
RECURSIVE RefBefore(_, _, _, _)
RefBefore(cigar, icig, read_pos, k) ==
    IF icig > Len(cigar) THEN 0
    ELSE LET bt == cigar[icig][1]
             bl == cigar[icig][2]
         IN  IF bt = MATCH
             THEN IF read_pos + bl > k THEN k - read_pos
                  ELSE bl + RefBefore(cigar, icig + 1, read_pos + bl, k)
             ELSE IF bt = INSERTION
             THEN IF read_pos + bl > k THEN 0
                  ELSE RefBefore(cigar, icig + 1, read_pos + bl, k)
             ELSE IF bt = DELETION
             THEN bl + RefBefore(cigar, icig + 1, read_pos, k)
             ELSE RefBefore(cigar, icig + 1, read_pos, k)

\* the number of bases removed at the start of read i: the bases of a read are
\* numbered from 1 on entry
RemovedAtStart(i) == reads[i].seq[1] - entry[i].seq[1]

\* C24: when trim_read_pair_low_quality or main_block_read_pair_low_quality
\* removes the first k > 0 bases of a read, the read's new start is the
\* reference coordinate, in the original alignment, of the first retained base:
\* the old start plus the reference length (MATCH and DELETION blocks, or parts
\* of a MATCH block) that the original CIGAR consumes before that base.
C24_NewStartIsFirstRetainedBase ==
    op \in {"trim_read_pair_low_quality", "main_block_read_pair_low_quality"} =>
        \A i \in 1 .. 2 :
            (reads[i].seq # <<>> /\ RemovedAtStart(i) > 0) =>
                reads[i].pos
                    = entry[i].pos + RefBefore(entry[i].cigar, 1, 0, RemovedAtStart(i))

----------------------------------------------------------------------------
(* Properties of the discards of the two quality trims                     *)

\* C25: a discard is atomic: whenever trim_read_pair_low_quality or
\* main_block_read_pair_low_quality returns True, neither read of the pair has
\* been modified (seq, qual, CIGAR, start, mate start and insert size are as on
\* entry), also when the discard is decided at the second read or at the final
\* test of the insert size.
C25_DiscardLeavesPairUntouched ==
    (/\ op \in {"trim_read_pair_low_quality", "main_block_read_pair_low_quality"}
     /\ ret = "True")
    => reads = entry

----------------------------------------------------------------------------
(* Properties of the integrity of a pair after trim_read_pair_crossoverhangs *)

\* the pair passed test_read_pair_integrity when the call was made
EntryPassesIntegrity ==
    /\ ~test_read_pair_integrity(entry)
    /\ \A i \in 1 .. 2 : OnlyMID(entry[i].cigar)

\* the call has returned with a pair that passes test_read_pair_integrity, CIGARs
\* that cover their sequences and blocks of positive length only
ExitPassesIntegrity ==
    /\ ret = "None"
    /\ ~test_read_pair_integrity(reads)
    /\ \A i \in 1 .. 2 :
          /\ CigarSum(reads[i].cigar, {MATCH, INSERTION}) = Len(reads[i].seq)
          /\ PositiveBlocks(reads[i].cigar)

\* C26: for every pair that passes test_read_pair_integrity before
\* trim_read_pair_crossoverhangs (insert size > 0, MATCH, INSERTION and DELETION
\* blocks only), the pair passes test_read_pair_integrity after it, each CIGAR's
\* MATCH+INSERTION sum is the new sequence length and every CIGAR block has a
\* positive length.
C26_CrossTrimKeepsIntegrity ==
    (op = "trim_read_pair_crossoverhangs" /\ EntryPassesIntegrity)
    => ExitPassesIntegrity

----------------------------------------------------------------------------
(* Properties of the failures of trim_short_cigars                         *)

\* C27: trim_short_cigars fails (raises, or returns True with throw False) only
\* if the read's CIGAR on entry holds no MATCH block of length >= match_len_min:
\* for every read of MATCH, INSERTION and DELETION blocks only with at least one
\* such block, and match_len_min > trim_pad >= 0, the call succeeds, also when the
\* same single block has to absorb the pad on both edges.
C27_TrimFailsOnlyWithoutGoodBlock ==
    (/\ op = "trim_short_cigars"
     /\ Recognised(entry[1].cigar, 1, Len(entry[1].cigar))
     /\ GoodSet(entry[1].cigar, arg.match_len_min) # {}
     /\ arg.match_len_min > arg.trim_pad
     /\ arg.trim_pad >= 0)
    => TrimSucceeded

----------------------------------------------------------------------------
(* Properties of the insert after trim_read_pair_crossoverhangs            *)

\* forward start, reverse reference end and forward insert size of a pair
InsertOf(rs) ==
    [start_fwd |-> rs[FwdOf(rs)].pos,
     end_rev |-> rs[RevOf(rs)].pos + CigarSum(rs[RevOf(rs)].cigar, {MATCH, DELETION}),
     isize |-> rs[FwdOf(rs)].isize]

\* C28: trim_read_pair_crossoverhangs preserves the insert: for every pair that
\* passes test_read_pair_integrity on entry, the forward read's start, the
\* reverse read's reference end (start + MATCH+DELETION sum) and the forward
\* insert size are the same after the call as before it.
C28_CrossTrimPreservesInsert ==
    (op = "trim_read_pair_crossoverhangs" /\ EntryPassesIntegrity)
    => InsertOf(reads) = InsertOf(entry)

\* both reads of a pair with an insert longer than trim have lost bases, the
\* reverse read has a deletion left and a new start
C28_Witness ==
    /\ FirstCross
    /\ ret = "None"
    /\ EntryPassesIntegrity
    /\ entry[FwdOf(entry)].isize > arg.trim
    /\ \A i \in 1 .. 2 : Len(reads[i].seq) < Len(entry[i].seq)
    /\ reads[RevOf(entry)].pos > entry[RevOf(entry)].pos
    /\ \E k \in 1 .. Len(reads[RevOf(entry)].cigar) :
            reads[RevOf(entry)].cigar[k][1] = DELETION
    /\ InsertOf(reads) = InsertOf(entry)

----------------------------------------------------------------------------
(* Properties of get_insert_size_distribution                              *)

\* the pairs among the first maxreads pairs of the stream (all of them when
\* maxreads is not positive) in which both reads are mapped and properly paired
KeptPairs ==
    {k \in 1 .. Len(reads) :
        /\ (arg.maxreads > 0 => k <= arg.maxreads)
        /\ \A j \in 1 .. 2 : ~reads[k][j].is_unmapped /\ reads[k][j].is_proper_pair}

\* the number of entries of s equal to x
CountIn(s, x) == Cardinality({j \in 1 .. Len(s) : s[j] = x})

\* C29: get_insert_size_distribution returns as insert_sizes exactly the
\* multiset, sorted ascending, of the forward read's insert size of every pair
\* among the first maxreads pairs in which both reads are mapped and properly
\* paired: skipped pairs contribute no entry and no kept pair's insert size is
\* lost, whatever the interleaving of kept and skipped pairs.
C29_InsertSizesAreTheKeptPairs ==
    op = "get_insert_size_distribution" =>
        /\ Len(ret) = Cardinality(KeptPairs)
        /\ \A j \in 1 .. (Len(ret) - 1) : ret[j] <= ret[j + 1]
        /\ \A x \in {isize_fwd(reads[k]) : k \in 1 .. Len(reads)} \cup {ret[j] : j \in 1 .. Len(ret)} :
              CountIn(ret, x) = Cardinality({k \in KeptPairs : isize_fwd(reads[k]) = x})

----------------------------------------------------------------------------
(* Properties of extract_mapped_pairs_subsample_open                       *)

\* the pairs of the stream, in stream order
StreamPairs == [k \in 1 .. (Len(reads) \div 2) |-> <<reads[2 * k - 1], reads[2 * k]>>]

\* the number of pairs the sample is drawn from
SampledFrom ==
    IF arg.maxreads = 0 - 1 THEN Len(StreamPairs)
    ELSE Min({Len(StreamPairs), arg.maxreads})

\* C30: on a stream holding more than n_reads pairs
\* extract_mapped_pairs_subsample_open returns, without raising, exactly
\* min(n_reads, M) distinct pairs in stream order, all among the first M pairs,
\* where M is the number of pairs of the stream when maxreads = -1 and
\* min(number of pairs, maxreads) otherwise (maxreads < n_reads included); on a
\* stream of at most n_reads pairs it yields every pair; in every case the
\* stream has been reset to its start when the call returns.
C30_SubsampleIsOfRequestedSize ==
    op = "extract_mapped_pairs_subsample_open" =>
        /\ ret.kind # "IndexError"
        /\ ret.position = 0
        /\ Len(StreamPairs) <= arg.n_reads => ret.pairs = StreamPairs
        /\ Len(StreamPairs) > arg.n_reads =>
              /\ Len(ret.pairs) = Min({arg.n_reads, SampledFrom})
              /\ \E idx \in [1 .. Len(ret.pairs) -> 1 .. SampledFrom] :
                    /\ \A j \in 1 .. (Len(ret.pairs) - 1) : idx[j] < idx[j + 1]
                    /\ \A j \in 1 .. Len(ret.pairs) : ret.pairs[j] = StreamPairs[idx[j]]

=============================================================================
